---- MODULE Spec2Model ----
(***************************************************************************)
(* The log-structured key-value engine of the kvs crate: the line codec    *)
(* (log_helper.rs), the store (kv_store.rs) and the shared, mutex-guarded  *)
(* engine handle (engine.rs).                                              *)
(*                                                                         *)
(* Segment files are sequences of bytes (one-character strings), records   *)
(* are encoded and decoded byte by byte, and an index entry is a pair      *)
(* (segment number, byte offset), as in the source.                        *)
(***************************************************************************)
EXTENDS Integers, Sequences, FiniteSets, TLC

(***************************************************************************)
(* Constants of kv_store.rs, scaled down so that rotation and compaction   *)
(* happen within a few records (a Set record of the model is 8 bytes, a    *)
(* Remove record 5 bytes).                                                 *)
(***************************************************************************)
MAX_LOG_SIZE == 7

MAX_UNCOMPACTED_SIZE == 3

\* Bound of the model: no segment number above MaxFileCount is created.
MaxFileCount == 5

\* Bound of the model: the number of set and remove calls of a run.
MaxOps == 4

\* Bounds of the model: the connections clients open and the requests they send.
MaxConns == 1

MaxRequests == 3

SP == " "

LF == "\n"

\* Characters str::trim strips (char::is_whitespace), as far as the model has them.
Whitespace == {" ", "\n", "\t", "\r"}

\* Keys and values the clients send: non-empty, no space, no newline.
Keys == {<<"a">>, <<"b">>}

Values == {<<"x">>, <<"y">>}

\* The worker threads that may hold a clone of the engine handle.
AllThreads == {"t1", "t2"}

NoThread == "none"

(***************************************************************************)
(* Option and Result values.                                               *)
(***************************************************************************)
None == <<>>

Some(v) == <<v>>

Ok(v) == [ok |-> TRUE, val |-> v, err |-> "-"]

Err(e) == [ok |-> FALSE, val |-> None, err |-> e]

Unit == <<>>

(***************************************************************************)
(* Records (log_helper.rs).                                                *)
(***************************************************************************)
RecSet(k, v) == [type |-> "Set", key |-> k, value |-> v]

RecRemove(k) == [type |-> "Remove", key |-> k, value |-> <<>>]

FileIndex(p, o) == [path |-> p, offset |-> o]

\* LogHelper::serialize
serialize(record) ==
    IF record.type = "Set"
    THEN <<"s", "e", "t", SP>> \o record.key \o <<SP>> \o record.value \o <<LF>>
    ELSE <<"r", "m", SP>> \o record.key \o <<LF>>

\* str::trim: drop leading and trailing whitespace
RECURSIVE TrimStart(_)
TrimStart(s) ==
    IF s # <<>> /\ Head(s) \in Whitespace THEN TrimStart(Tail(s)) ELSE s

RECURSIVE TrimEnd(_)
TrimEnd(s) ==
    IF s # <<>> /\ s[Len(s)] \in Whitespace
    THEN TrimEnd(SubSeq(s, 1, Len(s) - 1))
    ELSE s

Trim(s) == TrimEnd(TrimStart(s))

\* str::split(' '): the pieces between single spaces (an empty string gives one
\* empty piece, two adjacent spaces give an empty piece between them)
RECURSIVE Split(_)
Split(s) ==
    IF \A i \in 1..Len(s) : s[i] # SP
    THEN <<s>>
    ELSE LET i == CHOOSE i \in 1..Len(s) :
                      s[i] = SP /\ \A j \in 1..(i - 1) : s[j] # SP
         IN  <<SubSeq(s, 1, i - 1)>> \o Split(SubSeq(s, i + 1, Len(s)))

\* LogHelper::deserialize
deserialize(buf) ==
    LET tokens == Split(Trim(buf))
    IN  IF tokens[1] = <<"s", "e", "t">> /\ Len(tokens) = 3
        THEN Ok(RecSet(tokens[2], tokens[3]))
        ELSE IF tokens[1] = <<"r", "m">> /\ Len(tokens) = 2
        THEN Ok(RecRemove(tokens[2]))
        ELSE Err("DeserializeError")

(***************************************************************************)
(* Files. A directory is a function from the numbers N of the existing     *)
(* files N.log to their bytes.                                             *)
(***************************************************************************)
\* BufRead::read_line / read_until(b'\n') from a byte offset: the bytes up to and
\* including the next newline, or up to the end of the file
ReadLine(bytes, offset) ==
    LET rest == SubSeq(bytes, offset + 1, Len(bytes))
    IN  IF \A i \in 1..Len(rest) : rest[i] # LF
        THEN rest
        ELSE SubSeq(rest, 1, CHOOSE i \in 1..Len(rest) :
                                 rest[i] = LF /\ \A j \in 1..(i - 1) : rest[j] # LF)

\* LogHelper::read
read(dir, fi) ==
    IF fi.path \notin DOMAIN dir
    THEN Err("IOError")
    ELSE deserialize(ReadLine(dir[fi.path], fi.offset))

\* LogHelper::read_all: the (record, FileIndex) pairs of one file, or the first error
RECURSIVE ReadAllFrom(_, _, _)
ReadAllFrom(dir, path, offset) ==
    LET line == ReadLine(dir[path], offset)
    IN  IF Len(line) = 0
        THEN Ok(<<>>)
        ELSE LET r    == deserialize(line)
                 rest == ReadAllFrom(dir, path, offset + Len(line))
             IN  IF ~r.ok THEN Err(r.err)
                 ELSE IF ~rest.ok THEN rest
                 ELSE Ok(<<[record |-> r.val, fi |-> FileIndex(path, offset)]>>
                         \o rest.val)

read_all(dir, path) == ReadAllFrom(dir, path, 0)

\* a write that reports the start of the file as the record's offset
WriteOffsetZero(dir, path) == 0

\* the offset LogHelper::write returns: the length of the file before the write
WriteOffset(dir, path) == Len(dir[path])

\* a write to a file opened without append: the record replaces the content
WriteBytesTruncating(dir, path, record) ==
    [dir EXCEPT ![path] = serialize(record)]

\* LogHelper::write, the file's bytes after the append
WriteBytes(dir, path, record) ==
    [dir EXCEPT ![path] = @ \o serialize(record)]

\* KvStore::open_file: OpenOptions create(true).append(true)
open_file(dir, n) ==
    IF n \in DOMAIN dir THEN dir ELSE [m \in DOMAIN dir \cup {n} |->
                                          IF m = n THEN <<>> ELSE dir[m]]

\* a removal that leaves the file in place
remove_fileSkipped(dir, n) == dir

\* fs::remove_file
remove_file(dir, n) == [m \in DOMAIN dir \ {n} |-> dir[m]]

\* an insert that keeps the entry of a key the map already holds
MapInsertKeepOld(m, k, x) ==
    IF k \in DOMAIN m THEN m
    ELSE [j \in DOMAIN m \cup {k} |-> IF j = k THEN x ELSE m[j]]

\* HashMap::insert and HashMap::remove
MapInsert(m, k, x) == [j \in DOMAIN m \cup {k} |-> IF j = k THEN x ELSE m[j]]

MapRemove(m, k) == [j \in DOMAIN m \ {k} |-> m[j]]

EmptyMap == [j \in {} |-> 0]

(***************************************************************************)
(* KvStore::open (kv_store.rs): discovery, creation of the active segment, *)
(* replay of the segments 1..file_count in ascending order.                *)
(***************************************************************************)
\* the largest N among the files N.log, 0 when there is none
MaxFileNumber(dir) ==
    IF DOMAIN dir = {} THEN 0
    ELSE CHOOSE n \in DOMAIN dir : \A m \in DOMAIN dir : m <= n

\* a replay that counts a Remove record and leaves its key in the index
ReplayRecordNoTombstone(acc, r) ==
    IF r.record.type = "Set"
    THEN [idx         |-> MapInsert(acc.idx, r.record.key, r.fi),
          uncompacted |-> IF r.record.key \in DOMAIN acc.idx
                          THEN acc.uncompacted + 1
                          ELSE acc.uncompacted]
    ELSE [idx         |-> acc.idx,
          uncompacted |-> acc.uncompacted + 1]

\* the body of the replay loop for one record
ReplayRecord(acc, r) ==
    IF r.record.type = "Set"
    THEN [idx         |-> MapInsert(acc.idx, r.record.key, r.fi),
          uncompacted |-> IF r.record.key \in DOMAIN acc.idx
                          THEN acc.uncompacted + 1
                          ELSE acc.uncompacted]
    ELSE [idx         |-> MapRemove(acc.idx, r.record.key),
          uncompacted |-> acc.uncompacted + 1]

RECURSIVE ReplayRecords(_, _, _)
ReplayRecords(recs, i, acc) ==
    IF i > Len(recs) THEN acc
    ELSE ReplayRecords(recs, i + 1, ReplayRecord(acc, recs[i]))

\* for num in 1..=file_count: skip a missing file, fail on the first read_all error
RECURSIVE ReplayFiles(_, _, _, _)
ReplayFiles(dir, num, fc, acc) ==
    IF num > fc THEN Ok(acc)
    ELSE IF num \notin DOMAIN dir THEN ReplayFiles(dir, num + 1, fc, acc)
    ELSE LET ra == read_all(dir, num)
         IN  IF ~ra.ok THEN Err(ra.err)
             ELSE ReplayFiles(dir, num + 1, fc, ReplayRecords(ra.val, 1, acc))

\* KvStore::open: the store and the directory it leaves, or the error
open(dir) ==
    LET found == MaxFileNumber(dir)
        fc    == IF found < 1 THEN 1 ELSE found
        dir1  == open_file(dir, fc)
        rp    == ReplayFiles(dir1, 1, fc, [idx |-> EmptyMap, uncompacted |-> 0])
    IN  IF ~rp.ok
        THEN [ok |-> FALSE, dir |-> dir1, file_count |-> fc, cur_path |-> fc,
              idx |-> EmptyMap, uncompacted |-> 0]
        ELSE [ok |-> TRUE, dir |-> dir1, file_count |-> fc, cur_path |-> fc,
              idx |-> rp.val.idx, uncompacted |-> rp.val.uncompacted]

(***************************************************************************)
(* KvStore's operations as functions of the store s = (file_count,         *)
(* cur_path, idx, uncompacted) and the directory s.dir.                    *)
(***************************************************************************)
\* a new_file that creates the next segment and keeps writing to the old one
new_fileKeepsCur(s) ==
    [s EXCEPT !.file_count = s.file_count + 1,
              !.dir        = open_file(s.dir, s.file_count + 1)]

\* KvStore::new_file
new_file(s) ==
    [s EXCEPT !.file_count = s.file_count + 1,
              !.cur_path   = s.file_count + 1,
              !.dir        = open_file(s.dir, s.file_count + 1)]

\* the test of KvStore::check_if_new_file
LogIsFull(len) == len > MAX_LOG_SIZE

\* a check that never rotates
check_if_new_fileNever(s) == s

\* KvStore::check_if_new_file
check_if_new_file(s) ==
    IF LogIsFull(Len(s.dir[s.cur_path])) THEN new_file(s) ELSE s

\* LogHelper::write on the store's current file: the store after the append and
\* the FileIndex returned
write(s, record) ==
    [store |-> [s EXCEPT !.dir = WriteBytes(s.dir, s.cur_path, record)],
     fi    |-> FileIndex(s.cur_path, WriteOffset(s.dir, s.cur_path))]

\* a trigger that fires one record late
MustCompactLate(u) == u > MAX_UNCOMPACTED_SIZE

\* the test of KvStore::record_uncompact
MustCompact(u) == u >= MAX_UNCOMPACTED_SIZE

\* KvStore::record_uncompact up to the call of compact
record_uncompact(s) ==
    LET s1 == [s EXCEPT !.uncompacted = s.uncompacted + 1]
    IN  [store |-> s1, compact |-> MustCompact(s1.uncompacted), res |-> Ok(Unit)]

\* KvStore::set up to the call of compact
set(s, key, value) ==
    LET s1    == check_if_new_file(s)
        w     == write(s1, RecSet(key, value))
        prior == key \in DOMAIN w.store.idx
        s2    == [w.store EXCEPT !.idx = MapInsert(w.store.idx, key, w.fi)]
    IN  IF prior
        THEN record_uncompact([s2 EXCEPT !.uncompacted = s2.uncompacted + 1])
        ELSE [store |-> s2, compact |-> FALSE, res |-> Ok(Unit)]

\* a remove that appends the Remove record without looking the key up first
removeUnchecked(s, key) ==
    LET s1 == [s EXCEPT !.idx = MapRemove(s.idx, key)]
        s2 == check_if_new_file(s1)
        w  == write(s2, RecRemove(key))
    IN  record_uncompact(w.store)

\* KvStore::remove up to the call of compact
remove(s, key) ==
    IF key \notin DOMAIN s.idx
    THEN [store |-> s, compact |-> FALSE, res |-> Err("NonExistentKey")]
    ELSE LET s1 == [s EXCEPT !.idx = MapRemove(s.idx, key)]
             s2 == check_if_new_file(s1)
             w  == write(s2, RecRemove(key))
         IN  record_uncompact(w.store)

\* KvStore::get
get(s, key) ==
    IF key \notin DOMAIN s.idx THEN Ok(None)
    ELSE LET r == read(s.dir, s.idx[key])
         IN  IF ~r.ok THEN Err(r.err)
             ELSE IF r.val.type = "Set" THEN Ok(Some(r.val.value))
             ELSE Ok(None)

\* what get returns for every key
GetAll(s) == [k \in Keys |-> get(s, k)]

(***************************************************************************)
(* State.                                                                  *)
(***************************************************************************)
VARIABLES
    files,        \* the data directory: file number -> bytes
    file_count,   \* KvStore.file_count
    cur_path,     \* KvStore.cur_file / cur_path: the number of the open segment
    idx,          \* KvStore.idx: key -> FileIndex
    uncompacted,  \* KvStore.uncompacted
    mutex,        \* the holder of the Mutex of engine::KvStore, or NoThread
    threads,      \* the threads holding a clone of the handle
    owns,         \* per thread: the keys and values its client works with
    pc,           \* per thread: idle, lock, exec, compact, copy, delete, ret
    req,          \* per thread: the call in progress
    res,          \* per thread: the result of the call, once it has one
    loc,          \* per thread: the locals of compact
    kv,           \* the abstract map the calls applied so far define
    allowed,      \* per thread: the values a pending get may return
    nops,         \* the number of set and remove calls made so far
    compacted,    \* what the last compaction left, while no set or remove followed it
    queue,        \* the mpsc channel of the pool: the messages sent and not yet received
    rx,           \* the holder of the Mutex around the Receiver, or NoThread
    wpc,          \* per worker: lock, recv, run, exited
    wjob,         \* per worker: the job it runs
    pool,         \* the owner of the pool: alive, terminate, join, dropped, and its counts
    hist,         \* the jobs spawned, the messages taken, the jobs run, in order
    shutdown,     \* KvsServer.shutdown, the AtomicBool
    acc,          \* KvsServer::run: check, accept, stopped
    conns,        \* per connection: its state, the bytes in flight, what was sent
    hpc,          \* per worker: the position of handle_stream: none, read, call, flush
    boot,         \* main of kvs-server: its position, its arguments, the other entries
                  \* of the data directory, what it opened and bound
    probe         \* a call of the codec or of open on inputs of its own, and its result

vars == <<files, file_count, cur_path, idx, uncompacted, mutex, threads, owns, pc,
          req, res, loc, kv, allowed, nops, compacted, queue, rx, wpc, wjob, pool, hist,
          shutdown, acc, conns, hpc, boot, probe>>

engine == <<files, file_count, cur_path, idx, uncompacted>>

\* the variables of a caller of the engine
caller == <<mutex, threads, owns, pc, req, res, loc, kv, allowed, nops>>

\* the variables of the thread pool
poolvars == <<queue, rx, wpc, wjob, pool, hist>>

\* the variables of the server: the flag, the accept loop, the connections, the handlers
netvars == <<shutdown, acc, conns, hpc>>

\* the variables the engine's own steps leave alone
rest == <<compacted, poolvars, netvars, boot, probe>>

St == [file_count |-> file_count, cur_path |-> cur_path, idx |-> idx,
       uncompacted |-> uncompacted, dir |-> files]

Install(s) ==
    /\ files' = s.dir
    /\ file_count' = s.file_count
    /\ cur_path' = s.cur_path
    /\ idx' = s.idx
    /\ uncompacted' = s.uncompacted

NoReq == [op |-> "none", key |-> <<>>, value |-> <<>>]

NoRes == [ok |-> TRUE, val |-> <<>>, err |-> "none"]

NoLoc == [old_file_count |-> 0, todo |-> {}, num |-> 0,
          before |-> [k \in Keys |-> NoRes]]

EmptyDir == [n \in {} |-> <<>>]

NoCompaction == [valid |-> FALSE, map |-> [k \in Keys |-> NoRes], recs |-> {}]

NoJob == [id |-> 0, kind |-> "none", conn |-> 0]

\* a connection no client has opened
\* main has opened the kvs engine on an empty directory and the server runs
Started == [pc |-> "running", arg |-> "kvs", extras |-> {}, err |-> "", engine |-> "kvs",
            bound |-> TRUE, dir0 |-> [n \in {} |-> <<>>], extras0 |-> {}]

\* no call on inputs of its own is made
NoProbe == [pc |-> "none"]

NoConn == [state |-> "none", inbox |-> <<>>, eof |-> FALSE, buf |-> <<>>, out |-> <<>>,
           sent |-> <<>>, done |-> <<>>, ended |-> "no"]

InitButProbe(ths, own) ==
    /\ files = open(EmptyDir).dir
    /\ file_count = open(EmptyDir).file_count
    /\ cur_path = open(EmptyDir).cur_path
    /\ idx = open(EmptyDir).idx
    /\ uncompacted = open(EmptyDir).uncompacted
    /\ mutex = NoThread
    /\ threads = ths
    /\ owns = own
    /\ pc = [t \in ths |-> "idle"]
    /\ req = [t \in ths |-> NoReq]
    /\ res = [t \in ths |-> NoRes]
    /\ loc = [t \in ths |-> NoLoc]
    /\ kv = [k \in Keys |-> None]
    /\ allowed = [t \in ths |-> {}]
    /\ nops = 0
    /\ compacted = NoCompaction
    /\ queue = <<>>
    /\ rx = NoThread
    /\ wpc = [t \in ths |-> "lock"]
    /\ wjob = [t \in ths |-> NoJob]
    /\ pool = [pc |-> "alive", sent |-> 0, joined |-> 0]
    /\ hist = [spawned |-> <<>>, taken |-> <<>>, ran |-> <<>>]
    /\ shutdown = FALSE
    /\ acc = "check"
    /\ conns = [c \in 1..MaxConns |-> NoConn]
    /\ hpc = [t \in ths |-> "none"]
    /\ boot = Started

\* one handle, as after KvStore::open on a fresh directory
InitWith(ths, own) == InitButProbe(ths, own) /\ probe = NoProbe

Init == InitWith({"t1"}, [t \in {"t1"} |-> [keys |-> Keys, values |-> Values]])

\* the handle cloned to every worker thread
InitConc == InitWith(AllThreads, [t \in AllThreads |-> [keys |-> Keys, values |-> Values]])

\* two clients working on disjoint keys, each with values of its own
InitDisjoint ==
    InitWith(AllThreads, [t \in AllThreads |->
                            IF t = "t1"
                            THEN [keys |-> {<<"a">>}, values |-> {<<"x">>}]
                            ELSE [keys |-> {<<"b">>}, values |-> {<<"y">>}]])

(***************************************************************************)
(* The engine handle (engine.rs): a call locks the mutex, runs the store's *)
(* operation and unlocks when it returns.                                  *)
(***************************************************************************)
Holding == {"exec", "compact", "copy", "delete", "ret"}

\* the pending gets of key k widen by value x (an Option) when a mutation of k is applied
Widen(t, k, x) ==
    [u \in threads |->
        IF u # t /\ pc[u] \in {"lock", "exec"} /\ req[u].op = "get" /\ req[u].key = k
        THEN allowed[u] \cup {x}
        ELSE allowed[u]]

CallSet(t, k, v) ==
    /\ pc[t] = "idle"
    /\ nops < MaxOps
    /\ nops' = nops + 1
    /\ k \in owns[t].keys
    /\ v \in owns[t].values
    /\ pc' = [pc EXCEPT ![t] = "lock"]
    /\ req' = [req EXCEPT ![t] = [op |-> "set", key |-> k, value |-> v]]
    /\ UNCHANGED <<engine, mutex, threads, owns, res, loc, kv, allowed>>

CallGet(t, k) ==
    /\ pc[t] = "idle"
    /\ k \in owns[t].keys
    /\ pc' = [pc EXCEPT ![t] = "lock"]
    /\ req' = [req EXCEPT ![t] = [op |-> "get", key |-> k, value |-> <<>>]]
    /\ allowed' = [allowed EXCEPT ![t] = {kv[k]}]
    /\ UNCHANGED <<engine, mutex, threads, nops, owns, res, loc, kv>>

CallRemove(t, k) ==
    /\ pc[t] = "idle"
    /\ nops < MaxOps
    /\ nops' = nops + 1
    /\ k \in owns[t].keys
    /\ pc' = [pc EXCEPT ![t] = "lock"]
    /\ req' = [req EXCEPT ![t] = [op |-> "remove", key |-> k, value |-> <<>>]]
    /\ UNCHANGED <<engine, mutex, threads, owns, res, loc, kv, allowed>>

\* a lock that any thread gets at once
CanLockAlways(t) == TRUE

\* Mutex::lock succeeds when no thread holds the mutex
CanLock(t) == mutex = NoThread

\* self.inner.lock().unwrap()
Lock(t) ==
    /\ pc[t] = "lock"
    /\ CanLock(t)
    /\ mutex' = t
    /\ pc' = [pc EXCEPT ![t] = "exec"]
    /\ UNCHANGED <<engine, threads, nops, owns, req, res, loc, kv, allowed>>

\* the segment numbers the step needs stay within the model's bound
WithinBound(r) ==
    r.store.file_count + (IF r.compact THEN 1 ELSE 0) <= MaxFileCount

\* KvStore::set, up to its return or its call of compact
KvStoreSet(t) ==
    /\ pc[t] = "exec"
    /\ req[t].op = "set"
    /\ LET r == set(St, req[t].key, req[t].value)
       IN  /\ WithinBound(r)
           /\ Install(r.store)
           /\ pc' = [pc EXCEPT ![t] = IF r.compact THEN "compact" ELSE "ret"]
           /\ res' = [res EXCEPT ![t] = IF r.compact THEN NoRes ELSE r.res]
    /\ kv' = [kv EXCEPT ![req[t].key] = Some(req[t].value)]
    /\ allowed' = Widen(t, req[t].key, Some(req[t].value))
    /\ UNCHANGED <<mutex, threads, nops, owns, req, loc>>

\* KvStore::remove, up to its return or its call of compact
KvStoreRemove(t) ==
    /\ pc[t] = "exec"
    /\ req[t].op = "remove"
    /\ LET r == remove(St, req[t].key)
       IN  /\ WithinBound(r)
           /\ Install(r.store)
           /\ pc' = [pc EXCEPT ![t] = IF r.compact THEN "compact" ELSE "ret"]
           /\ res' = [res EXCEPT ![t] = IF r.compact THEN NoRes ELSE r.res]
           /\ kv' = IF r.res.ok THEN [kv EXCEPT ![req[t].key] = None] ELSE kv
           /\ allowed' = IF r.res.ok THEN Widen(t, req[t].key, None) ELSE allowed
    /\ UNCHANGED <<mutex, threads, nops, owns, req, loc>>

\* KvStore::get
KvStoreGet(t) ==
    /\ pc[t] = "exec"
    /\ req[t].op = "get"
    /\ res' = [res EXCEPT ![t] = get(St, req[t].key)]
    /\ pc' = [pc EXCEPT ![t] = "ret"]
    /\ UNCHANGED <<engine, mutex, threads, nops, owns, req, loc, kv, allowed>>

\* KvStore::compact, lines 185-187: reset the counter, remember the old count,
\* create the new segment
CompactBegin(t) ==
    /\ pc[t] = "compact"
    /\ Install(new_file([St EXCEPT !.uncompacted = 0]))
    /\ loc' = [loc EXCEPT ![t] = [old_file_count |-> file_count,
                                  todo |-> DOMAIN idx,
                                  num |-> 1,
                                  before |-> GetAll(St)]]
    /\ pc' = [pc EXCEPT ![t] = IF DOMAIN idx = {} THEN "delete" ELSE "copy"]
    /\ UNCHANGED <<mutex, threads, nops, owns, req, res, kv, allowed>>

\* the segment a compaction copies the live records into
CopyTarget(s) == s.cur_path

\* KvStore::compact, lines 189-193: one iteration over idx (a HashMap iterates in
\* any order): read the record, append it to the new segment, repoint the entry
CompactCopy(t) ==
    /\ pc[t] = "copy"
    /\ \E k \in loc[t].todo :
        LET r == read(files, idx[k])
        IN  IF ~r.ok
            THEN /\ res' = [res EXCEPT ![t] = Err(r.err)]
                 /\ pc' = [pc EXCEPT ![t] = "ret"]
                 /\ UNCHANGED <<engine, loc>>
            ELSE LET p  == CopyTarget(St)
                     fi == FileIndex(p, WriteOffset(files, p))
                 IN  /\ files' = WriteBytes(files, p, r.val)
                     /\ idx' = [idx EXCEPT ![k] = fi]
                     /\ loc' = [loc EXCEPT ![t].todo = @ \ {k}]
                     /\ pc' = [pc EXCEPT ![t] =
                                  IF loc[t].todo = {k} THEN "delete" ELSE "copy"]
                     /\ UNCHANGED <<file_count, cur_path, uncompacted, res>>
    /\ UNCHANGED <<mutex, threads, nops, owns, req, kv, allowed>>

\* a deletion loop that runs to the current file_count, the new segment included
LastToDeleteAll(t) == file_count

\* the last segment number the deletion loop of compact visits
LastToDelete(t) == loc[t].old_file_count

\* a deletion loop that visits the old segments from the newest to the oldest
NumToDeleteDescending(t) == loc[t].old_file_count + 1 - loc[t].num

\* the segment number the current iteration of the deletion loop visits
NumToDelete(t) == loc[t].num

\* KvStore::compact, lines 195-200: one iteration of the deletion loop
CompactDelete(t) ==
    /\ pc[t] = "delete"
    /\ LET num  == NumToDelete(t)
           last == loc[t].num >= LastToDelete(t)
       IN  /\ files' = IF num \in DOMAIN files THEN remove_file(files, num) ELSE files
           /\ loc' = [loc EXCEPT ![t].num = loc[t].num + 1]
           /\ pc' = [pc EXCEPT ![t] = IF last THEN "ret" ELSE "delete"]
           /\ res' = [res EXCEPT ![t] = IF last THEN Ok(Unit) ELSE NoRes]
    /\ UNCHANGED <<file_count, cur_path, idx, uncompacted, mutex, threads, nops, owns, req, kv,
                   allowed>>

\* the call returns: the MutexGuard is dropped
Return(t) ==
    /\ pc[t] = "ret"
    /\ mutex' = IF mutex = t THEN NoThread ELSE mutex
    /\ pc' = [pc EXCEPT ![t] = "idle"]
    /\ req' = [req EXCEPT ![t] = NoReq]
    /\ res' = [res EXCEPT ![t] = NoRes]
    /\ loc' = [loc EXCEPT ![t] = NoLoc]
    /\ allowed' = [allowed EXCEPT ![t] = {}]
    /\ UNCHANGED <<engine, threads, nops, owns, kv>>

\* the process stops at any point and KvStore::open runs again on the directory
Restart ==
    /\ open(files).ok
    /\ Install(open(files))
    /\ mutex' = NoThread
    /\ pc' = [t \in threads |-> "idle"]
    /\ req' = [t \in threads |-> NoReq]
    /\ res' = [t \in threads |-> NoRes]
    /\ loc' = [t \in threads |-> NoLoc]
    /\ allowed' = [t \in threads |-> {}]
    /\ UNCHANGED <<threads, nops, owns, kv>>

Next ==
    \/ \E t \in threads, k \in Keys, v \in Values : CallSet(t, k, v) /\ UNCHANGED rest
    \/ \E t \in threads, k \in Keys : CallGet(t, k) /\ UNCHANGED rest
    \/ \E t \in threads, k \in Keys : CallRemove(t, k) /\ UNCHANGED rest
    \/ \E t \in threads : Lock(t) /\ UNCHANGED rest
    \/ \E t \in threads : KvStoreSet(t) /\ UNCHANGED rest
    \/ \E t \in threads : KvStoreGet(t) /\ UNCHANGED rest
    \/ \E t \in threads : KvStoreRemove(t) /\ UNCHANGED rest
    \/ \E t \in threads : CompactBegin(t) /\ UNCHANGED rest
    \/ \E t \in threads : CompactCopy(t) /\ UNCHANGED rest
    \/ \E t \in threads : CompactDelete(t) /\ UNCHANGED rest
    \/ \E t \in threads : Return(t) /\ UNCHANGED rest
    \/ Restart /\ UNCHANGED rest

\* the running server: the process does not stop
NextConc ==
    \/ \E t \in threads, k \in Keys, v \in Values : CallSet(t, k, v) /\ UNCHANGED rest
    \/ \E t \in threads, k \in Keys : CallGet(t, k) /\ UNCHANGED rest
    \/ \E t \in threads, k \in Keys : CallRemove(t, k) /\ UNCHANGED rest
    \/ \E t \in threads : Lock(t) /\ UNCHANGED rest
    \/ \E t \in threads : KvStoreSet(t) /\ UNCHANGED rest
    \/ \E t \in threads : KvStoreGet(t) /\ UNCHANGED rest
    \/ \E t \in threads : KvStoreRemove(t) /\ UNCHANGED rest
    \/ \E t \in threads : CompactBegin(t) /\ UNCHANGED rest
    \/ \E t \in threads : CompactCopy(t) /\ UNCHANGED rest
    \/ \E t \in threads : CompactDelete(t) /\ UNCHANGED rest
    \/ \E t \in threads : Return(t) /\ UNCHANGED rest

Spec == Init /\ [][Next]_vars

SpecConc == InitConc /\ [][NextConc]_vars

SpecDisjoint == InitDisjoint /\ [][NextConc]_vars

(***************************************************************************)
(* Helpers of the properties.                                              *)
(***************************************************************************)
Quiescent == \A t \in threads : pc[t] = "idle"

\* the store KvStore::open builds from a directory
Reopened(dir) ==
    LET o == open(dir)
    IN  [file_count |-> o.file_count, cur_path |-> o.cur_path, idx |-> o.idx,
         uncompacted |-> o.uncompacted, dir |-> o.dir]

\* the records of the segments 1..n in replay order
RECURSIVE RecordsUpTo(_, _)
RecordsUpTo(dir, n) ==
    IF n = 0 THEN <<>>
    ELSE RecordsUpTo(dir, n - 1)
         \o (IF n \in DOMAIN dir /\ read_all(dir, n).ok
             THEN read_all(dir, n).val ELSE <<>>)

AllRecords(dir) == RecordsUpTo(dir, MaxFileNumber(dir))

\* a get has returned on thread t
GetReturned(t) == pc[t] = "ret" /\ req[t].op = "get"

(***************************************************************************)
(* C1. The engine refines an abstract key -> value map: every get that      *)
(* returns gives Ok(Some(v)) for the value v of the latest set of its key   *)
(* when no remove followed it, and Ok(None) when the key was never set or   *)
(* was removed last, across rotations, compactions and reopens.             *)
(***************************************************************************)
C1_GetRefinesMap ==
    \A t \in threads : GetReturned(t) => res[t] = Ok(kv[req[t].key])

\* a get returns the overwritten value of one key while the other key is removed,
\* after a compaction (segment 1 is gone) and a rotation (two segments exist)
C1_Witness ==
    /\ GetReturned("t1")
    /\ res["t1"] = Ok(Some(<<"y">>))
    /\ \E k \in Keys : k # req["t1"].key /\ kv[k] = None /\ k \notin DOMAIN idx
    /\ 1 \notin DOMAIN files
    /\ Cardinality(DOMAIN files) >= 2

(***************************************************************************)
(* C2. Close and reopen: whenever no call is in progress, KvStore::open on  *)
(* the directory succeeds and builds a store in which every get(k) returns  *)
(* what it returns in the running engine.                                   *)
(***************************************************************************)
C2_ReopenSameMapping ==
    Quiescent => /\ open(files).ok
                 /\ GetAll(Reopened(files)) = GetAll(St)

\* the state right after a reopen of a directory with an overwritten key in two
\* segments: the replay counted 1 for the overwrite (the running engine counts 2)
\* and the directory holds no Remove record
C2_Witness ==
    /\ Quiescent
    /\ uncompacted = 1
    /\ Cardinality(DOMAIN files) >= 2
    /\ \A i \in 1..Len(AllRecords(files)) : AllRecords(files)[i].record.type = "Set"
    /\ \E k \in Keys : kv[k] = Some(<<"y">>)
    /\ St = Reopened(files)

(***************************************************************************)
(* C3. In every reachable state, every key k of the index points into an    *)
(* existing segment file, at a record that decodes to Set(k, v) for some v. *)
(***************************************************************************)
C3_IndexPointsToSet ==
    \A k \in DOMAIN idx :
        /\ idx[k].path \in DOMAIN files
        /\ read(files, idx[k]).ok
        /\ read(files, idx[k]).val.type = "Set"
        /\ read(files, idx[k]).val.key = k

\* after a compaction two keys are indexed in the same segment, one of them at a
\* later offset
C3_Witness ==
    /\ 1 \notin DOMAIN files
    /\ Cardinality(DOMAIN idx) = 2
    /\ \E k \in DOMAIN idx : idx[k].offset > 0
    /\ \A k \in DOMAIN idx : idx[k].path = file_count

(***************************************************************************)
(* C4. remove(k) of a key that is not in the index returns the error        *)
(* NonExistentKey and changes nothing of the engine (index, files, active   *)
(* segment, file_count, uncompacted); and every set(k, v) leaves the store  *)
(* in a state where get(k) gives Some(v).                                   *)
(***************************************************************************)
C4_RemoveAbsentKey ==
    [][\A t \in threads :
          /\ (/\ pc[t] = "exec"
              /\ req[t].op = "remove"
              /\ req[t].key \notin DOMAIN idx
              /\ pc'[t] # "idle")
             => /\ pc'[t] = "ret"
                /\ res'[t] = Err("NonExistentKey")
                /\ UNCHANGED engine
          /\ (/\ pc[t] = "exec"
              /\ req[t].op = "set"
              /\ pc'[t] \in {"ret", "compact"})
             => get(St', req[t].key) = Ok(Some(req[t].value))]_vars

\* a remove of an absent key has returned its error on an engine that holds the
\* other key, in a directory of two segments
C4_Witness ==
    /\ pc["t1"] = "ret"
    /\ req["t1"].op = "remove"
    /\ res["t1"] = Err("NonExistentKey")
    /\ req["t1"].key \notin DOMAIN idx
    /\ DOMAIN idx # {}
    /\ Cardinality(DOMAIN files) >= 2

(***************************************************************************)
(* C5. Threads sharing the handle: a get returns the value its key had when *)
(* the get was called (which is at least as new as every set that had       *)
(* returned by then) or the value of a set or remove applied since; never   *)
(* an older one, and never an error.                                        *)
(***************************************************************************)
C5_GetNeverOlder ==
    \A t \in threads : GetReturned(t) => res[t].ok /\ res[t].val \in allowed[t]

\* a get that waited for the mutex while another thread's mutation of its key was
\* applied has returned the newer value
C5_Witness ==
    /\ GetReturned("t1")
    /\ Cardinality(allowed["t1"]) >= 2
    /\ res["t1"] = Ok(Some(<<"y">>))
    /\ pc["t2"] = "lock"

(***************************************************************************)
(* C6. Engine calls exclude each other: at most one thread is inside a      *)
(* store operation (with the rotation or compaction it performs) and it is  *)
(* the holder of the mutex; no index entry points into a deleted segment;   *)
(* and with clients on disjoint keys every get returns None or a value of   *)
(* the client that called it.                                               *)
(***************************************************************************)
C6_MutualExclusion ==
    /\ Cardinality({t \in threads : pc[t] \in Holding}) <= 1
    /\ \A t \in threads : pc[t] \in Holding => mutex = t
    /\ \A k \in DOMAIN idx : idx[k].path \in DOMAIN files
    /\ \A t \in threads :
          GetReturned(t) =>
              /\ res[t].ok
              /\ res[t].val = None \/ res[t].val[1] \in owns[t].values

\* a get waits for the mutex while the other client's set is deleting old segments
C6_Witness ==
    /\ pc["t1"] = "lock"
    /\ req["t1"].op = "get"
    /\ pc["t2"] = "delete"
    /\ loc["t2"].num >= 2
    /\ DOMAIN idx = Keys

(***************************************************************************)
(* C7. When a compaction has completed: file_count is the old count plus 1  *)
(* and names the active segment, every index entry points into it, it is    *)
(* the only file of the directory, every key reads back what it read before *)
(* the compaction, the segment holds exactly one Set record per indexed key *)
(* and no Remove record, and uncompacted is 0.                              *)
(***************************************************************************)
CompactionDone(t) ==
    /\ pc[t] = "ret"
    /\ res[t].ok
    /\ loc[t].old_file_count > 0
    /\ loc[t].num > loc[t].old_file_count

C7_CompactionResult ==
    \A t \in threads :
        CompactionDone(t) =>
            /\ file_count = loc[t].old_file_count + 1
            /\ cur_path = file_count
            /\ \A k \in DOMAIN idx : idx[k].path = file_count
            /\ DOMAIN files = {file_count}
            /\ GetAll(St) = loc[t].before
            /\ DOMAIN idx = {k \in Keys : loc[t].before[k].val # None}
            /\ LET recs == read_all(files, file_count)
               IN  /\ recs.ok
                   /\ Len(recs.val) = Cardinality(DOMAIN idx)
                   /\ \A i \in 1..Len(recs.val) : recs.val[i].record.type = "Set"
                   /\ {recs.val[i].record.key : i \in 1..Len(recs.val)} = DOMAIN idx
            /\ uncompacted = 0

\* a compaction of three old segments with one live and one removed key has completed
C7_Witness ==
    /\ CompactionDone("t1")
    /\ loc["t1"].old_file_count >= 3
    /\ Cardinality(DOMAIN idx) = 1
    /\ \E k \in Keys : kv[k] = None /\ loc["t1"].before[k] = Ok(None)

(***************************************************************************)
(* C8. A stop at any step of a compaction (new segment created, any subset  *)
(* of the live records copied, any prefix of the old segments deleted):     *)
(* KvStore::open on the directory of that moment succeeds and gives every   *)
(* key the result it had just before the compaction started.                *)
(***************************************************************************)
InCompaction(t) == pc[t] \in {"copy", "delete"} \/ CompactionDone(t)

C8_StopDuringCompaction ==
    \A t \in threads :
        InCompaction(t) =>
            /\ open(files).ok
            /\ GetAll(Reopened(files)) = loc[t].before

\* the deletion loop has deleted a prefix of the old segments; a later old segment
\* remains, one key is live and the other was removed
C8_Witness ==
    /\ pc["t1"] = "delete"
    /\ loc["t1"].num >= 2
    /\ \E n \in DOMAIN files : n >= loc["t1"].num /\ n <= loc["t1"].old_file_count
    /\ \E k \in Keys : loc["t1"].before[k] = Ok(Some(<<"y">>))
    /\ \E k \in Keys : kv[k] = None
                         /\ \E i \in 1..Len(AllRecords(files)) :
                               AllRecords(files)[i].record = RecRemove(k)

(***************************************************************************)
(* C9. As claimed: after every successful set or remove has returned,       *)
(* uncompacted is below MAX_UNCOMPACTED_SIZE.                               *)
(***************************************************************************)
C9_CounterBelowMaxAfterEveryCall ==
    \A t \in threads :
        (pc[t] = "ret" /\ req[t].op \in {"set", "remove"} /\ res[t].ok)
            => uncompacted < MAX_UNCOMPACTED_SIZE

(***************************************************************************)
(* C9, amended. A successful remove, and a successful set of a key that is  *)
(* in the index, return with uncompacted below MAX_UNCOMPACTED_SIZE; a set  *)
(* of a key that is not in the index returns with the counter unchanged     *)
(* (below the threshold when it was below before).                          *)
(***************************************************************************)
C9_TriggerBoundsCounter ==
    [][\A t \in threads :
          /\ (/\ pc[t] \in {"exec", "delete"}
              /\ req[t].op \in {"set", "remove"}
              /\ pc'[t] = "ret"
              /\ res'[t].ok
              /\ \/ req[t].op = "remove"
                 \/ req[t].key \in DOMAIN idx
                 \/ uncompacted < MAX_UNCOMPACTED_SIZE)
             => uncompacted' < MAX_UNCOMPACTED_SIZE
          /\ (/\ pc[t] = "exec"
              /\ req[t].op = "set"
              /\ req[t].key \notin DOMAIN idx
              /\ pc'[t] = "ret")
             => uncompacted' = uncompacted]_vars

\* an overwriting set has reached the threshold, compacted two live keys and
\* returned with the counter reset
C9_Witness ==
    /\ CompactionDone("t1")
    /\ req["t1"].op = "set"
    /\ uncompacted = 0
    /\ loc["t1"].before[req["t1"].key] = Ok(Some(req["t1"].value))
    /\ DOMAIN idx = Keys
    /\ Len(files[file_count]) > MAX_LOG_SIZE

(***************************************************************************)
(* C10. Sets of distinct keys on a fresh directory, no compaction.          *)
(***************************************************************************)
RECURSIVE SizeUpTo(_, _)
SizeUpTo(dir, n) ==
    IF n = 0 THEN 0
    ELSE SizeUpTo(dir, n - 1) + (IF n \in DOMAIN dir THEN Len(dir[n]) ELSE 0)

\* the sum of the lengths of the segment files
TotalSize(dir) == SizeUpTo(dir, MaxFileNumber(dir))

\* the encoded size of the record written last
LastRecordSize(dir) ==
    LET recs == AllRecords(dir)
    IN  IF recs = <<>> THEN 0 ELSE Len(serialize(recs[Len(recs)].record))

\* the directory of a run of sets of distinct keys from a fresh directory: the
\* segments 1..file_count all exist (a compaction deletes segment 1) and hold
\* Set records of pairwise distinct keys only
FreshDistinctSets ==
    LET recs == AllRecords(files)
    IN  /\ DOMAIN files = 1..file_count
        /\ uncompacted = 0
        /\ \A i \in 1..Len(recs) : recs[i].record.type = "Set"
        /\ \A i, j \in 1..Len(recs) :
              i # j => recs[i].record.key # recs[j].record.key

\* C10 as claimed: once the total encoded size of the records exceeds
\* MAX_LOG_SIZE, the directory holds at least 2 segment files and every key
\* reads back its latest value.
C10_TwoSegmentsOnceTotalExceeds ==
    (FreshDistinctSets /\ TotalSize(files) > MAX_LOG_SIZE)
        => /\ Cardinality(DOMAIN files) >= 2
           /\ \A k \in Keys : get(St, k) = Ok(kv[k])

\* C10, amended: once the total encoded size of the records written before the
\* last one exceeds MAX_LOG_SIZE (the size is tested before a write, not
\* after it), the directory holds at least 2 segment files; and every key reads
\* back its latest value.
C10_TwoSegmentsOnceEarlierExceed ==
    FreshDistinctSets
        => /\ (TotalSize(files) - LastRecordSize(files) > MAX_LOG_SIZE
                  => Cardinality(DOMAIN files) >= 2)
           /\ \A k \in Keys : get(St, k) = Ok(kv[k])

\* both keys were set once, the second set rotated, both read back
C10_Witness ==
    /\ FreshDistinctSets
    /\ TotalSize(files) - LastRecordSize(files) > MAX_LOG_SIZE
    /\ Cardinality(DOMAIN files) = 2
    /\ DOMAIN idx = Keys
    /\ \A k \in Keys : kv[k] # None /\ get(St, k) = Ok(kv[k])

(***************************************************************************)
(* KvStore::compact run on its own (kv_store.rs 184-202), as a test inside *)
(* the crate calls it: the engine's calls plus a call of compact.          *)
(***************************************************************************)
\* the records of segment n, as a set
SegRecords(dir, n) ==
    LET ra == read_all(dir, n)
    IN  IF ra.ok THEN {ra.val[i].record : i \in 1..Len(ra.val)} ELSE {}

\* what a completed compaction left: every key's get result and the segment's records
Compacted(s) == [valid |-> TRUE, map |-> GetAll(s), recs |-> SegRecords(s.dir, s.cur_path)]

\* self.compact() is called
CallCompact(t) ==
    /\ pc[t] = "idle"
    /\ pc' = [pc EXCEPT ![t] = "lock"]
    /\ req' = [req EXCEPT ![t] = [op |-> "compact", key |-> <<>>, value |-> <<>>]]
    /\ UNCHANGED <<engine, mutex, threads, owns, res, loc, kv, allowed, nops>>

\* the call enters KvStore::compact
KvStoreCompact(t) ==
    /\ pc[t] = "exec"
    /\ req[t].op = "compact"
    /\ file_count + 1 <= MaxFileCount
    /\ pc' = [pc EXCEPT ![t] = "compact"]
    /\ UNCHANGED <<engine, mutex, threads, owns, req, res, loc, kv, allowed, nops>>

\* a call returns; when it ran a compaction to its end, what it left is remembered
ReturnCompacted(t) ==
    /\ Return(t)
    /\ compacted' = IF CompactionDone(t) THEN Compacted(St) ELSE compacted
    /\ UNCHANGED <<poolvars, netvars, boot, probe>>

\* a record is appended: the last compaction is no longer the last change
Mutated(t) ==
    /\ compacted' = IF pc'[t] \in {"ret", "compact"} /\ files' # files
                    THEN NoCompaction ELSE compacted
    /\ UNCHANGED <<poolvars, netvars, boot, probe>>

NextCompact ==
    \/ \E t \in threads, k \in Keys, v \in Values : CallSet(t, k, v) /\ UNCHANGED rest
    \/ \E t \in threads, k \in Keys : CallGet(t, k) /\ UNCHANGED rest
    \/ \E t \in threads, k \in Keys : CallRemove(t, k) /\ UNCHANGED rest
    \/ \E t \in threads : CallCompact(t) /\ UNCHANGED rest
    \/ \E t \in threads : Lock(t) /\ UNCHANGED rest
    \/ \E t \in threads : KvStoreSet(t) /\ Mutated(t)
    \/ \E t \in threads : KvStoreGet(t) /\ UNCHANGED rest
    \/ \E t \in threads : KvStoreRemove(t) /\ Mutated(t)
    \/ \E t \in threads : KvStoreCompact(t) /\ UNCHANGED rest
    \/ \E t \in threads : CompactBegin(t) /\ UNCHANGED rest
    \/ \E t \in threads : CompactCopy(t) /\ UNCHANGED rest
    \/ \E t \in threads : CompactDelete(t) /\ UNCHANGED rest
    \/ \E t \in threads : ReturnCompacted(t)

SpecCompact == Init /\ [][NextCompact]_vars

(***************************************************************************)
(* C11. Compaction is idempotent: a compaction that runs to its end right   *)
(* after another one, with no set or remove in between, leaves every key    *)
(* with the get result the first one left, and a directory of one segment,  *)
(* the active one, holding exactly one Set record per indexed key and no    *)
(* other record: the records the first one left.                            *)
(***************************************************************************)
C11_CompactionIdempotent ==
    \A t \in threads :
        (CompactionDone(t) /\ compacted.valid) =>
            /\ GetAll(St) = compacted.map
            /\ DOMAIN files = {file_count}
            /\ cur_path = file_count
            /\ LET recs == read_all(files, file_count)
               IN  /\ recs.ok
                   /\ Len(recs.val) = Cardinality(DOMAIN idx)
                   /\ \A i \in 1..Len(recs.val) :
                         /\ recs.val[i].record.type = "Set"
                         /\ recs.val[i].record.key \in DOMAIN idx
                         /\ idx[recs.val[i].record.key] = recs.val[i].fi
            /\ SegRecords(files, file_count) = compacted.recs

\* a second compaction in a row has completed on a store of two live keys
C11_Witness ==
    /\ CompactionDone("t1")
    /\ req["t1"].op = "compact"
    /\ compacted.valid
    /\ DOMAIN idx = Keys
    /\ Cardinality(compacted.recs) = 2
    /\ file_count >= 3

(***************************************************************************)
(* C19. Accounting of the counter at run time: a set or remove that returns *)
(* Ok without running a compaction leaves uncompacted one higher when it    *)
(* was a remove or a set of a key in the index, and unchanged when it was a *)
(* set of a key not in the index.                                           *)
(***************************************************************************)
C19_CounterIncrementsByOne ==
    [][\A t \in threads :
          (/\ pc[t] = "exec"
           /\ req[t].op \in {"set", "remove"}
           /\ pc'[t] = "ret"
           /\ res'[t].ok)
          => uncompacted' = uncompacted
                              + (IF req[t].op = "remove" \/ req[t].key \in DOMAIN idx
                                 THEN 1 ELSE 0)]_vars

(***************************************************************************)
(* I/O errors.  Every file system call of set, remove, get and compact is  *)
(* followed by `?`: when the call fails, the operation returns             *)
(* Err(KvsError::IOError) with the store as the statements before it left  *)
(* it.                                                                     *)
(***************************************************************************)
\* the calls of set and remove that can fail: File::metadata in
\* check_if_new_file, OpenOptions::open in new_file, LogHelper::write
IoFaults == {"metadata", "open", "write"}

\* new_file opens a file only when the active segment is full
FaultApplies(s, at) == at # "open" \/ LogIsFull(Len(s.dir[s.cur_path]))

\* the store check_if_new_file and write leave when the call `at` fails: nothing
\* is done after a failed metadata; new_file has incremented file_count when its
\* open fails; a failed write comes after a rotation that succeeded
StoreAtFault(s, at) ==
    IF at = "metadata" THEN s
    ELSE IF at = "open" THEN [s EXCEPT !.file_count = s.file_count + 1]
    ELSE check_if_new_file(s)

\* KvStore::set with a failing I/O call: the index is not touched
setFailing(s, key, value, at) ==
    [store |-> StoreAtFault(s, at), compact |-> FALSE, res |-> Err("IOError")]

\* KvStore::remove of a key in the index with a failing I/O call: idx.remove has
\* run before check_if_new_file and write are called
removeFailing(s, key, at) ==
    LET s1 == [s EXCEPT !.idx = MapRemove(s.idx, key)]
    IN  [store |-> StoreAtFault(s1, at), compact |-> FALSE, res |-> Err("IOError")]

KvStoreSetFails(t) ==
    /\ pc[t] = "exec"
    /\ req[t].op = "set"
    /\ \E at \in IoFaults :
          LET r == setFailing(St, req[t].key, req[t].value, at)
          IN  /\ FaultApplies(St, at)
              /\ WithinBound(r)
              /\ Install(r.store)
              /\ res' = [res EXCEPT ![t] = r.res]
    /\ pc' = [pc EXCEPT ![t] = "ret"]
    /\ UNCHANGED <<mutex, threads, owns, req, loc, kv, allowed, nops>>

KvStoreRemoveFails(t) ==
    /\ pc[t] = "exec"
    /\ req[t].op = "remove"
    /\ req[t].key \in DOMAIN idx
    /\ \E at \in IoFaults :
          LET r == removeFailing(St, req[t].key, at)
          IN  /\ FaultApplies([St EXCEPT !.idx = MapRemove(idx, req[t].key)], at)
              /\ WithinBound(r)
              /\ Install(r.store)
              /\ res' = [res EXCEPT ![t] = r.res]
    /\ pc' = [pc EXCEPT ![t] = "ret"]
    /\ UNCHANGED <<mutex, threads, owns, req, loc, kv, allowed, nops>>

\* KvStore::get: File::open, seek or read_line of LogHelper::read fails
KvStoreGetFails(t) ==
    /\ pc[t] = "exec"
    /\ req[t].op = "get"
    /\ req[t].key \in DOMAIN idx
    /\ res' = [res EXCEPT ![t] = Err("IOError")]
    /\ pc' = [pc EXCEPT ![t] = "ret"]
    /\ UNCHANGED <<engine, mutex, threads, owns, req, loc, kv, allowed, nops>>

\* KvStore::compact: the open of new_file fails (the counter is reset and
\* file_count incremented by then), or a read or write of the copy loop, or a
\* remove_file of the deletion loop
CompactFails(t) ==
    /\ pc[t] \in {"compact", "copy", "delete"}
    /\ IF pc[t] = "compact"
       THEN /\ uncompacted' = 0
            /\ file_count' = file_count + 1
            /\ UNCHANGED <<files, cur_path, idx>>
       ELSE UNCHANGED engine
    /\ res' = [res EXCEPT ![t] = Err("IOError")]
    /\ pc' = [pc EXCEPT ![t] = "ret"]
    /\ UNCHANGED <<mutex, threads, owns, req, loc, kv, allowed, nops>>

NextFault ==
    \/ \E t \in threads, k \in Keys, v \in Values : CallSet(t, k, v) /\ UNCHANGED rest
    \/ \E t \in threads, k \in Keys : CallGet(t, k) /\ UNCHANGED rest
    \/ \E t \in threads, k \in Keys : CallRemove(t, k) /\ UNCHANGED rest
    \/ \E t \in threads : Lock(t) /\ UNCHANGED rest
    \/ \E t \in threads : KvStoreSet(t) /\ UNCHANGED rest
    \/ \E t \in threads : KvStoreSetFails(t) /\ UNCHANGED rest
    \/ \E t \in threads : KvStoreGet(t) /\ UNCHANGED rest
    \/ \E t \in threads : KvStoreGetFails(t) /\ UNCHANGED rest
    \/ \E t \in threads : KvStoreRemove(t) /\ UNCHANGED rest
    \/ \E t \in threads : KvStoreRemoveFails(t) /\ UNCHANGED rest
    \/ \E t \in threads : CompactBegin(t) /\ UNCHANGED rest
    \/ \E t \in threads : CompactCopy(t) /\ UNCHANGED rest
    \/ \E t \in threads : CompactDelete(t) /\ UNCHANGED rest
    \/ \E t \in threads : CompactFails(t) /\ UNCHANGED rest
    \/ \E t \in threads : Return(t) /\ UNCHANGED rest

SpecFault == Init /\ [][NextFault]_vars

(***************************************************************************)
(* C20. After an engine operation has returned an I/O error, the index in   *)
(* memory is the one a replay of the directory builds: the same keys, each  *)
(* with the same get result; in particular the key of a failed remove is    *)
(* still in the index.                                                      *)
(***************************************************************************)
C20_IndexAgreesAfterIoError ==
    \A t \in threads :
        (pc[t] = "ret" /\ res[t] = Err("IOError")) =>
            /\ req[t].op = "remove" => req[t].key \in DOMAIN idx
            /\ open(files).ok
            /\ DOMAIN Reopened(files).idx = DOMAIN idx
            /\ GetAll(Reopened(files)) = GetAll(St)

(***************************************************************************)
(* The worker pool (thread_pool.rs): an mpsc channel of messages, a        *)
(* Receiver behind a Mutex shared by the workers, and the owner that       *)
(* spawns jobs and drops the pool.                                         *)
(***************************************************************************)
\* Bound of the model: the number of jobs spawned in a run.
MaxJobs == 3

\* Message::NewJob and Message::Terminate
NewJob(job) == [type |-> "NewJob", job |-> job]

Terminate == [type |-> "Terminate", job |-> NoJob]

\* the closures a test spawns: one that returns and one that panics
PlainJobs == {[id |-> 0, kind |-> k, conn |-> 0] : k \in {"ok", "panic"}}

\* the workers in the order of the Vec<Worker>
WorkerOrder == <<"t1", "t2">>

PoolSize == Cardinality(threads)

\* a drop that sends one Terminate too few
TerminatesToSendButOne == PoolSize - 1

\* for _ in &self.workers: one Terminate per worker
TerminatesToSend == PoolSize

\* a receive that takes the message sent last
RecvIndexNewest(q) == Len(q)

\* Receiver::recv takes the message sent first
RecvIndex(q) == 1

\* a worker whose thread ends when its job panics
AfterJobUncaught(panicked) == IF panicked THEN "exited" ELSE "lock"

\* catch_unwind: the worker loops on whether the job returned or panicked
AfterJob(panicked) == "lock"

RemoveAt(q, i) == [j \in 1..(Len(q) - 1) |-> IF j < i THEN q[j] ELSE q[j + 1]]

\* NaiveThreadPool::spawn: the job is boxed and sent
PoolSpawn(job) ==
    /\ pool.pc = "alive"
    /\ Len(hist.spawned) < MaxJobs
    /\ LET j == [job EXCEPT !.id = Len(hist.spawned) + 1]
       IN  /\ queue' = Append(queue, NewJob(j))
           /\ hist' = [hist EXCEPT !.spawned = Append(@, j)]
    /\ UNCHANGED <<rx, wpc, wjob, pool>>

\* Drop, first loop: one more Terminate is sent
PoolDropSend ==
    /\ pool.pc \in {"alive", "terminate"}
    /\ pool.sent < TerminatesToSend \/ TerminatesToSend <= 0
    /\ queue' = IF TerminatesToSend <= 0 THEN queue ELSE Append(queue, Terminate)
    /\ pool' = IF TerminatesToSend <= 0
               THEN [pool EXCEPT !.pc = "join"]
               ELSE [pool EXCEPT !.sent = @ + 1,
                                 !.pc = IF pool.sent + 1 >= TerminatesToSend
                                        THEN "join" ELSE "terminate"]
    /\ UNCHANGED <<rx, wpc, wjob, hist>>

\* Drop, second loop: thread.join() of the next worker returns once it has exited
PoolDropJoin ==
    /\ pool.pc = "join"
    /\ pool.joined < PoolSize
    /\ wpc[WorkerOrder[pool.joined + 1]] = "exited"
    /\ pool' = [pool EXCEPT !.joined = @ + 1,
                            !.pc = IF pool.joined + 1 = PoolSize THEN "dropped" ELSE "join"]
    /\ UNCHANGED <<queue, rx, wpc, wjob, hist>>

\* receiver.lock().unwrap()
WorkerLock(w) ==
    /\ wpc[w] = "lock"
    /\ rx = NoThread
    /\ rx' = w
    /\ wpc' = [wpc EXCEPT ![w] = "recv"]
    /\ UNCHANGED <<queue, wjob, pool, hist>>

\* receiver.recv() returns and the guard is dropped: a job to run, or Terminate
\* (or Err once the Sender is gone), which ends the loop
WorkerRecv(w) ==
    /\ wpc[w] = "recv"
    /\ rx = w
    /\ queue # <<>> \/ pool.pc = "dropped"
    /\ rx' = NoThread
    /\ IF queue = <<>>
       THEN /\ wpc' = [wpc EXCEPT ![w] = "exited"]
            /\ UNCHANGED <<queue, wjob, hist>>
       ELSE LET i   == RecvIndex(queue)
                msg == queue[i]
            IN  /\ queue' = RemoveAt(queue, i)
                /\ hist' = [hist EXCEPT !.taken = Append(@, [msg |-> msg, worker |-> w])]
                /\ wpc' = [wpc EXCEPT ![w] = IF msg.type = "NewJob" THEN "run" ELSE "exited"]
                /\ wjob' = [wjob EXCEPT ![w] = msg.job]
    /\ UNCHANGED pool

\* catch_unwind(AssertUnwindSafe(job)): the job returns or panics
JobRuns(w) ==
    /\ wpc[w] = "run"
    /\ wjob[w].kind \in {"ok", "panic"}
    /\ LET panicked == wjob[w].kind = "panic"
       IN  /\ wpc' = [wpc EXCEPT ![w] = AfterJob(panicked)]
           /\ hist' = [hist EXCEPT !.ran = Append(@, [job |-> wjob[w], worker |-> w,
                                                      panicked |-> panicked])]
    /\ wjob' = [wjob EXCEPT ![w] = NoJob]
    /\ UNCHANGED <<queue, rx, pool>>

InitPool == InitConc

NextPool ==
    \/ \E job \in PlainJobs : PoolSpawn(job) /\ UNCHANGED <<probe, boot, engine, caller, compacted, netvars>>
    \/ PoolDropSend /\ UNCHANGED <<probe, boot, engine, caller, compacted, netvars>>
    \/ PoolDropJoin /\ UNCHANGED <<probe, boot, engine, caller, compacted, netvars>>
    \/ \E w \in threads : WorkerLock(w) /\ UNCHANGED <<probe, boot, engine, caller, compacted, netvars>>
    \/ \E w \in threads : WorkerRecv(w) /\ UNCHANGED <<probe, boot, engine, caller, compacted, netvars>>
    \/ \E w \in threads : JobRuns(w) /\ UNCHANGED <<probe, boot, engine, caller, compacted, netvars>>

SpecPool == InitPool /\ [][NextPool]_vars

\* the messages taken from the channel that carry a job, in the order taken
IsJobTaken(e) == e.msg.type = "NewJob"

TakenJobs == SelectSeq(hist.taken, IsJobTaken)

\* the number of Terminate messages worker w has taken
TerminatesTaken(w) ==
    Cardinality({i \in 1..Len(hist.taken) :
                    hist.taken[i].msg.type = "Terminate" /\ hist.taken[i].worker = w})

\* the number of Terminate messages in the channel
TerminatesQueued == Cardinality({i \in 1..Len(queue) : queue[i].type = "Terminate"})

\* the number of times a job was run
TimesRun(job) == Cardinality({i \in 1..Len(hist.ran) : hist.ran[i].job = job})

Spawned == {hist.spawned[i] : i \in 1..Len(hist.spawned)}

(***************************************************************************)
(* C14. Panic isolation: a worker whose job panicked is not ended by it (a  *)
(* worker has exited only after taking a Terminate), so while the pool is   *)
(* alive all its workers are; and once the pool is dropped every spawned    *)
(* job has been run, those spawned after a panic included.                  *)
(***************************************************************************)
C14_PanicIsolation ==
    /\ pool.pc = "alive" => \A w \in threads : wpc[w] # "exited"
    /\ \A w \in threads : wpc[w] = "exited" => TerminatesTaken(w) = 1
    /\ \A i \in 1..Len(hist.ran) :
          hist.ran[i].panicked =>
              \/ wpc[hist.ran[i].worker] # "exited"
              \/ TerminatesTaken(hist.ran[i].worker) = 1
    /\ pool.pc = "dropped" => \A job \in Spawned : TimesRun(job) = 1

\* the worker that ran a panicking job has then run the job spawned after it, and
\* both workers are live
C14_Witness ==
    /\ pool.pc = "alive"
    /\ Len(hist.ran) >= 2
    /\ hist.ran[1].panicked
    /\ hist.ran[2].worker = hist.ran[1].worker
    /\ hist.ran[2].job.id > hist.ran[1].job.id
    /\ \A w \in threads : wpc[w] # "exited"

(***************************************************************************)
(* C15. Drop: one Terminate per worker is sent, then the workers are        *)
(* joined; a worker exits on the one Terminate it takes, after every        *)
(* spawned job has been taken and the jobs it took itself have been run;    *)
(* when the drop returns all workers have exited, the channel is empty and  *)
(* every spawned job has been run.                                          *)
(***************************************************************************)
C15_DropJoinsAfterAllJobs ==
    /\ pool.pc \in {"join", "dropped"} =>
          /\ pool.sent = PoolSize
          /\ TerminatesQueued
               + Cardinality({i \in 1..Len(hist.taken) :
                                 hist.taken[i].msg.type = "Terminate"}) = PoolSize
    /\ \A w \in threads :
          /\ TerminatesTaken(w) <= 1
          /\ wpc[w] = "exited" <=> TerminatesTaken(w) = 1
          /\ wpc[w] = "exited" =>
                /\ Len(TakenJobs) = Len(hist.spawned)
                /\ \A i \in 1..Len(TakenJobs) :
                      TakenJobs[i].worker = w => TimesRun(TakenJobs[i].msg.job) = 1
    /\ pool.joined > 0 => pool.pc \in {"join", "dropped"}
    /\ pool.pc = "dropped" =>
          /\ \A w \in threads : wpc[w] = "exited"
          /\ queue = <<>>
          /\ \A job \in Spawned : TimesRun(job) = 1

\* the drop has returned after three jobs, some run by each worker
C15_Witness ==
    /\ pool.pc = "dropped"
    /\ Len(hist.ran) >= 3
    /\ \A w \in threads : \E i \in 1..Len(hist.ran) : hist.ran[i].worker = w

(***************************************************************************)
(* C16. Dispatch in submission order: the k-th job taken from the channel,  *)
(* by whichever worker, is the k-th job spawned; no job is run twice; and a *)
(* job is run by the worker that took it.                                   *)
(***************************************************************************)
C16_DispatchInSubmissionOrder ==
    /\ Len(TakenJobs) <= Len(hist.spawned)
    /\ \A k \in 1..Len(TakenJobs) : TakenJobs[k].msg.job = hist.spawned[k]
    /\ \A job \in Spawned : TimesRun(job) <= 1
    /\ \A i \in 1..Len(hist.ran) :
          \E k \in 1..Len(TakenJobs) :
              /\ TakenJobs[k].msg.job = hist.ran[i].job
              /\ TakenJobs[k].worker = hist.ran[i].worker
    /\ \A w \in threads :
          wpc[w] = "run" =>
              \E k \in 1..Len(TakenJobs) :
                  TakenJobs[k].msg.job = wjob[w] /\ TakenJobs[k].worker = w

\* the jobs were taken in the order spawned by different workers and the second
\* one finished first
C16_Witness ==
    /\ Len(TakenJobs) >= 2
    /\ TakenJobs[1].worker # TakenJobs[2].worker
    /\ Len(hist.ran) >= 1
    /\ hist.ran[1].job.id = 2

(***************************************************************************)
(* The server (bin/kvs-server.rs): the accept loop of KvsServer::run, the  *)
(* shutdown flag, the job spawned per connection and handle_stream, with   *)
(* the clients as the environment.                                         *)
(***************************************************************************)
\* protocol::Request, and a byte sequence that is no Request
Requests ==
    {[op |-> "set", key |-> k, value |-> v] : k \in Keys, v \in Values}
        \cup {[op |-> o, key |-> k, value |-> <<>>] : o \in {"get", "remove"}, k \in Keys}

Garbage == [op |-> "garbage", key |-> <<>>, value |-> <<>>]

\* protocol::Response
RespOk == [type |-> "Ok", val |-> None, msg |-> ""]

RespValue(v) == [type |-> "Value", val |-> v, msg |-> ""]

RespErr(m) == [type |-> "Err", val |-> None, msg |-> m]

\* Display of KvsError (the #[error(..)] attributes of error.rs)
to_string(e) ==
    IF e = "NonExistentKey" THEN "Key not found"
    ELSE IF e = "DeserializeError" THEN "error when deserialize from files"
    ELSE "io error"

\* a handler that answers a get of an absent key with an error
ResponseOfNoneIsError(r, result) ==
    IF ~result.ok THEN RespErr(to_string(result.err))
    ELSE IF r.op = "get"
         THEN IF result.val = None THEN RespErr("Key not found") ELSE RespValue(result.val)
         ELSE RespOk

\* the match of handle_stream: the response to request r given the engine's result
ResponseOf(r, result) ==
    IF ~result.ok THEN RespErr(to_string(result.err))
    ELSE IF r.op = "get" THEN RespValue(result.val)
    ELSE RespOk

\* a handler that reads the next request before it flushes
AfterResponseUnflushed(resp) == "read"

\* after to_writer the loop body ends with buf_writer.flush()
AfterResponse(resp) == "flush"

\* a loop that never sees the flag
StopRequestedNever == FALSE

\* self.shutdown.load(Ordering::Relaxed) at the top of the loop
StopRequested == shutdown

RECURSIVE SentUpTo(_)
SentUpTo(n) == IF n = 0 THEN 0 ELSE SentUpTo(n - 1) + Len(conns[n].sent)

\* the number of requests the clients have sent
TotalSent == SentUpTo(MaxConns)

\* a client connects: the connection waits in the listener's backlog
ClientConnect(c) ==
    /\ conns[c].state = "none"
    /\ IF c = 1 THEN TRUE ELSE conns[c - 1].state # "none"
    /\ conns' = [conns EXCEPT ![c].state = "pending"]
    /\ UNCHANGED <<shutdown, acc, hpc>>

\* a client writes a request (or bytes that are none) to its stream
ClientSend(c, r) ==
    /\ conns[c].state \in {"pending", "queued", "serving"}
    /\ ~conns[c].eof
    /\ TotalSent < MaxRequests
    /\ conns' = [conns EXCEPT ![c].inbox = Append(@, r), ![c].sent = Append(@, r)]
    /\ UNCHANGED <<shutdown, acc, hpc>>

\* a client closes its side of the stream
ClientClose(c) ==
    /\ conns[c].state \in {"pending", "queued", "serving"}
    /\ ~conns[c].eof
    /\ conns' = [conns EXCEPT ![c].eof = TRUE]
    /\ UNCHANGED <<shutdown, acc, hpc>>

\* KvsServer::shutdown
Shutdown ==
    /\ ~shutdown
    /\ shutdown' = TRUE
    /\ UNCHANGED <<acc, conns, hpc>>

\* KvsServer::run, lines 132-135: the flag is loaded; when set, the loop ends
AcceptCheck ==
    /\ acc = "check"
    /\ acc' = IF StopRequested THEN "stopped" ELSE "accept"
    /\ UNCHANGED <<shutdown, conns, hpc>>

\* KvsServer::run, lines 138-150: accept returns a connection and its job is spawned
AcceptConn(c) ==
    /\ acc = "accept"
    /\ conns[c].state = "pending"
    /\ PoolSpawn([id |-> 0, kind |-> "handler", conn |-> c])
    /\ conns' = [conns EXCEPT ![c].state = "queued"]
    /\ acc' = "check"
    /\ UNCHANGED <<shutdown, hpc>>

\* KvsServer::run, lines 151-155: WouldBlock, sleep, next cycle
AcceptNone ==
    /\ acc = "accept"
    /\ \A c \in 1..MaxConns : conns[c].state # "pending"
    /\ acc' = "check"
    /\ UNCHANGED <<shutdown, conns, hpc>>

\* the job of a connection starts: with the flag set it returns at once and the
\* stream is dropped, else handle_stream begins
HandlerStart(w) ==
    /\ wpc[w] = "run"
    /\ wjob[w].kind = "handler"
    /\ hpc[w] = "none"
    /\ LET c == wjob[w].conn
       IN  IF shutdown
           THEN /\ conns' = [conns EXCEPT ![c].state = "closed", ![c].ended = "skipped"]
                /\ wpc' = [wpc EXCEPT ![w] = AfterJob(FALSE)]
                /\ wjob' = [wjob EXCEPT ![w] = NoJob]
                /\ hist' = [hist EXCEPT !.ran = Append(@, [job |-> wjob[w], worker |-> w,
                                                           panicked |-> FALSE])]
                /\ UNCHANGED hpc
           ELSE /\ conns' = [conns EXCEPT ![c].state = "serving"]
                /\ hpc' = [hpc EXCEPT ![w] = "read"]
                /\ UNCHANGED <<wpc, wjob, hist>>
    /\ UNCHANGED <<queue, rx, pool, shutdown, acc>>

\* handle_stream, lines 184-188, 200, 212: the next request is read and the engine
\* is called
HandlerRead(w) ==
    /\ hpc[w] = "read"
    /\ LET c == wjob[w].conn
       IN  /\ conns[c].inbox # <<>>
           /\ Head(conns[c].inbox) \in Requests
           /\ LET r == Head(conns[c].inbox)
              IN  IF r.op = "set" THEN CallSet(w, r.key, r.value)
                  ELSE IF r.op = "get" THEN CallGet(w, r.key)
                  ELSE CallRemove(w, r.key)
           /\ conns' = [conns EXCEPT ![c].inbox = Tail(@)]
    /\ hpc' = [hpc EXCEPT ![w] = "call"]
    /\ UNCHANGED <<shutdown, acc>>

\* handle_stream, lines 184-185 and 227: the stream is at its end (Ok) or holds
\* bytes that are no Request (Err): the handler returns and the stream is dropped
HandlerEnd(w) ==
    /\ hpc[w] = "read"
    /\ LET c == wjob[w].conn
       IN  /\ IF conns[c].inbox = <<>> THEN conns[c].eof
                                        ELSE Head(conns[c].inbox) \notin Requests
           /\ conns' = [conns EXCEPT ![c].state = "closed",
                                     ![c].ended = IF conns[c].inbox = <<>>
                                                  THEN "eof" ELSE "bad"]
    /\ hpc' = [hpc EXCEPT ![w] = "none"]
    /\ wpc' = [wpc EXCEPT ![w] = AfterJob(FALSE)]
    /\ wjob' = [wjob EXCEPT ![w] = NoJob]
    /\ hist' = [hist EXCEPT !.ran = Append(@, [job |-> wjob[w], worker |-> w,
                                               panicked |-> FALSE])]
    /\ UNCHANGED <<queue, rx, pool, shutdown, acc>>

\* handle_stream, lines 188-223: the engine's call has returned and the response
\* is written to the BufWriter
HandlerRespond(w) ==
    /\ hpc[w] = "call"
    /\ pc[w] = "ret"
    /\ Return(w)
    /\ LET c    == wjob[w].conn
           resp == ResponseOf(req[w], res[w])
       IN  /\ conns' = [conns EXCEPT ![c].buf = Append(@, resp),
                                     ![c].done = Append(@, [req |-> req[w], res |-> res[w],
                                                            resp |-> resp])]
           /\ hpc' = [hpc EXCEPT ![w] = AfterResponse(resp)]
    /\ UNCHANGED <<shutdown, acc>>

\* handle_stream, line 225: buf_writer.flush()
HandlerFlush(w) ==
    /\ hpc[w] = "flush"
    /\ LET c == wjob[w].conn
       IN  conns' = [conns EXCEPT ![c].out = @ \o conns[c].buf, ![c].buf = <<>>]
    /\ hpc' = [hpc EXCEPT ![w] = "read"]
    /\ UNCHANGED <<shutdown, acc>>

\* main returns after run: the server is dropped and with it the pool
ServerDropSend == acc = "stopped" /\ PoolDropSend

ServerDropJoin == acc = "stopped" /\ PoolDropJoin

InitServer == InitConc

NextServer ==
    \/ \E c \in 1..MaxConns : ClientConnect(c) /\ UNCHANGED <<probe, boot, engine, caller, compacted, poolvars>>
    \/ \E c \in 1..MaxConns, r \in Requests \cup {Garbage} :
          ClientSend(c, r) /\ UNCHANGED <<probe, boot, engine, caller, compacted, poolvars>>
    \/ \E c \in 1..MaxConns : ClientClose(c) /\ UNCHANGED <<probe, boot, engine, caller, compacted, poolvars>>
    \/ Shutdown /\ UNCHANGED <<probe, boot, engine, caller, compacted, poolvars>>
    \/ AcceptCheck /\ UNCHANGED <<probe, boot, engine, caller, compacted, poolvars>>
    \/ \E c \in 1..MaxConns : AcceptConn(c) /\ UNCHANGED <<probe, boot, engine, caller, compacted>>
    \/ AcceptNone /\ UNCHANGED <<probe, boot, engine, caller, compacted, poolvars>>
    \/ ServerDropSend /\ UNCHANGED <<probe, boot, engine, caller, compacted, netvars>>
    \/ ServerDropJoin /\ UNCHANGED <<probe, boot, engine, caller, compacted, netvars>>
    \/ \E w \in threads : WorkerLock(w) /\ UNCHANGED <<probe, boot, engine, caller, compacted, netvars>>
    \/ \E w \in threads : WorkerRecv(w) /\ UNCHANGED <<probe, boot, engine, caller, compacted, netvars>>
    \/ \E w \in threads : HandlerStart(w) /\ UNCHANGED <<probe, boot, engine, caller, compacted>>
    \/ \E w \in threads : HandlerRead(w) /\ UNCHANGED <<probe, boot, compacted, poolvars>>
    \/ \E w \in threads : HandlerEnd(w) /\ UNCHANGED <<probe, boot, engine, caller, compacted>>
    \/ \E w \in threads : HandlerRespond(w) /\ UNCHANGED <<probe, boot, compacted, poolvars>>
    \/ \E w \in threads : HandlerFlush(w) /\ UNCHANGED <<probe, boot, engine, caller, compacted, poolvars>>
    \/ \E t \in threads : Lock(t) /\ UNCHANGED rest
    \/ \E t \in threads : KvStoreSet(t) /\ UNCHANGED rest
    \/ \E t \in threads : KvStoreGet(t) /\ UNCHANGED rest
    \/ \E t \in threads : KvStoreRemove(t) /\ UNCHANGED rest
    \/ \E t \in threads : CompactBegin(t) /\ UNCHANGED rest
    \/ \E t \in threads : CompactCopy(t) /\ UNCHANGED rest
    \/ \E t \in threads : CompactDelete(t) /\ UNCHANGED rest

SpecServer == InitServer /\ [][NextServer]_vars

\* the responses written to connection c, flushed and not
Responses(c) == conns[c].out \o conns[c].buf

\* the workers inside handle_stream for connection c
HandlersOf(c) == {w \in threads : hpc[w] # "none" /\ wjob[w].conn = c}

(***************************************************************************)
(* C12: within one connection the requests are handled in arrival order    *)
(* and each gets exactly one response, in the same order: the i-th         *)
(* response answers the i-th request sent, the requests not yet read are   *)
(* the rest of what was sent, and while a request is at the engine every   *)
(* response to the earlier requests has been written and flushed.          *)
(***************************************************************************)
C12_ResponsesInRequestOrder ==
    \A c \in 1..MaxConns :
        LET cn == conns[c]
        IN  /\ Len(Responses(c)) = Len(cn.done)
            /\ Len(cn.done) <= Len(cn.sent)
            /\ \A i \in 1..Len(cn.done) :
                  /\ cn.done[i].req = cn.sent[i]
                  /\ Responses(c)[i] = cn.done[i].resp
                  /\ Responses(c)[i] = ResponseOf(cn.sent[i], cn.done[i].res)
                  /\ Responses(c)[i].type = "Value" => cn.sent[i].op = "get"
            /\ Cardinality(HandlersOf(c)) <= 1
            /\ \A w \in HandlersOf(c) :
                  /\ hpc[w] = "call" =>
                        /\ cn.buf = <<>>
                        /\ Len(cn.out) = Len(cn.done)
                        /\ req[w] = cn.sent[Len(cn.done) + 1]
                        /\ cn.inbox = SubSeq(cn.sent, Len(cn.done) + 2, Len(cn.sent))
                  /\ hpc[w] # "call" =>
                        /\ pc[w] = "idle"
                        /\ cn.inbox = SubSeq(cn.sent, Len(cn.done) + 1, Len(cn.sent))
            /\ cn.ended = "eof" => cn.out = [i \in 1..Len(cn.sent) |-> cn.done[i].resp]

\* a connection that carried a set and then a get of the same key was served to its
\* end: the first response is Ok, the second the value just set
C12_Witness ==
    \E c \in 1..MaxConns :
        /\ conns[c].ended = "eof"
        /\ Len(conns[c].sent) = 2
        /\ conns[c].sent[1].op = "set"
        /\ conns[c].sent[2] = [op |-> "get", key |-> conns[c].sent[1].key, value |-> <<>>]
        /\ conns[c].out = <<RespOk, RespValue(conns[c].sent[1].value)>>

(***************************************************************************)
(* C13: an error of the engine is answered with Response::Err carrying     *)
(* the error's string, for that request only, and the connection keeps     *)
(* being served: a connection is closed only at the end of the client's    *)
(* stream, with every request answered, or at bytes that are no request;   *)
(* a get of an absent key is answered with Value(None).                    *)
(***************************************************************************)
C13_EngineErrorAnsweredAndServed ==
    \A c \in 1..MaxConns :
        LET cn == conns[c]
        IN  /\ \A i \in 1..Len(cn.done) :
                  LET d == cn.done[i]
                  IN  /\ ~d.res.ok => Responses(c)[i] = RespErr(to_string(d.res.err))
                      /\ d.res = Err("NonExistentKey") =>
                            /\ d.req.op = "remove"
                            /\ Responses(c)[i] = RespErr("Key not found")
                      /\ d.res.ok => Responses(c)[i].type # "Err"
                      /\ d.req.op = "get" /\ d.res = Ok(None) =>
                            Responses(c)[i] = RespValue(None)
            /\ cn.state = "closed" => cn.ended \in {"eof", "bad", "skipped"}
            /\ cn.ended = "eof" => Len(cn.out) = Len(cn.sent) /\ cn.inbox = <<>>
            /\ cn.ended = "bad" =>
                  /\ Len(cn.out) < Len(cn.sent)
                  /\ cn.sent[Len(cn.out) + 1] \notin Requests
            /\ cn.ended = "skipped" => shutdown /\ cn.done = <<>>
            /\ cn.state # "closed" => cn.ended = "no"

\* a connection that carried the remove of an absent key, a get of that key and a set
\* was served to its end: Err, then Value(None), then Ok
C13_Witness ==
    \E c \in 1..MaxConns :
        /\ conns[c].ended = "eof"
        /\ Len(conns[c].sent) = 3
        /\ conns[c].sent[1].op = "remove"
        /\ conns[c].sent[2].op = "get"
        /\ conns[c].sent[3].op = "set"
        /\ conns[c].out = <<RespErr("Key not found"), RespValue(None), RespOk>>

(***************************************************************************)
(* C17: cooperative shutdown. The flag, once set, stays set; the cycle of  *)
(* the accept loop that loads the flag after it was set leaves the loop;   *)
(* after that no connection is accepted and no job is spawned; the pool is *)
(* dropped only after the loop has ended; a job that starts with the flag  *)
(* set does not serve its connection, a handler that is in flight goes on  *)
(* to the end of its stream; and when the drop has returned every worker   *)
(* has exited and every job spawned has run to its end.                    *)
(***************************************************************************)
C17_CooperativeShutdown ==
    /\ [][/\ shutdown => shutdown'
          /\ shutdown /\ acc = "check" /\ acc' # acc => acc' = "stopped"
          /\ acc = "stopped" =>
                /\ acc' = "stopped"
                /\ hist'.spawned = hist.spawned
                /\ \A c \in 1..MaxConns :
                      conns[c].state \in {"none", "pending"} =>
                          conns'[c].state \in {"none", "pending"}
          /\ \A w \in threads :
                hpc[w] # "none" /\ hpc'[w] = "none" =>
                    conns'[wjob[w].conn].ended \in {"eof", "bad"}]_vars
    /\ [](/\ acc = "stopped" => shutdown
          /\ pool.pc # "alive" => acc = "stopped"
          /\ \A c \in 1..MaxConns : conns[c].state = "queued" =>
                \E i \in 1..Len(hist.spawned) : hist.spawned[i].conn = c
          /\ pool.pc = "dropped" =>
                /\ \A w \in threads : wpc[w] = "exited" /\ hpc[w] = "none"
                /\ queue = <<>>
                /\ Len(hist.ran) = Len(hist.spawned)
                /\ \A c \in 1..MaxConns :
                      /\ conns[c].state \in {"none", "pending", "closed"}
                      /\ conns[c].ended = "eof" => Len(conns[c].out) = Len(conns[c].sent))

\* the flag is set, the loop has ended and the pool is being dropped while a handler
\* is still at the engine for a request of its connection
C17_Witness ==
    /\ shutdown
    /\ acc = "stopped"
    /\ pool.pc = "join"
    /\ \E w \in threads : hpc[w] = "call" /\ pc[w] = "exec"

(***************************************************************************)
(* Startup (bin/kvs-server.rs): detect_previous_engine and main. The data  *)
(* directory is the segments of files plus the entries boot.extras, names  *)
(* that KvStore::open passes over.                                         *)
(***************************************************************************)
DotLog == <<".", "l", "o", "g">>

Digits == <<"1", "2", "3", "4", "5", "6", "7", "8", "9">>

\* format!("{num}.log") for the segment numbers of the model
SegmentName(n) == <<Digits[n]>> \o DotLog

\* str::ends_with
EndsWith(s, suffix) ==
    /\ Len(s) >= Len(suffix)
    /\ SubSeq(s, Len(s) - Len(suffix) + 1, Len(s)) = suffix

\* str::starts_with
StartsWith(s, prefix) ==
    /\ Len(s) >= Len(prefix)
    /\ SubSeq(s, 1, Len(prefix)) = prefix

NameDb == <<"d", "b">>

NameSled == <<"_", "s", "l", "e", "d">>

\* entries other than segments a data directory may hold
ExtraNames == {NameDb, NameSled \o <<"0">>, <<"c", "o", "n", "f">>,
               <<"n", "o", "t", "e", "s">> \o DotLog}

\* what sled::open leaves in its directory
SledFiles == {NameDb, <<"c", "o", "n", "f">>}

\* the engine names given on the command line
EngineArgs == {"kvs", "sled", "redis"}

\* the data directories main may find: no segment, one, or two
StartDirs ==
    {[n \in 1..k |-> serialize(RecSet(<<"a">>, <<"x">>))] : k \in 0..2}

\* fs::read_dir(path): the names of the entries of the data directory
Listing(dir, extras) == {SegmentName(n) : n \in DOMAIN dir} \cup extras

\* a main that starts whatever engine was used before
MismatchedNever(previous, current) == FALSE

\* main, line 79: previous_engine != args.engine
Mismatched(previous, current) == previous # current

\* detect_previous_engine
detect_previous_engine(names) ==
    LET has_kvs  == \E n \in names : EndsWith(n, DotLog)
        has_sled == \E n \in names : n = NameDb \/ StartsWith(n, NameSled)
    IN  IF has_kvs /\ ~has_sled THEN Ok(Some("kvs"))
        ELSE IF ~has_kvs /\ has_sled THEN Ok(Some("sled"))
        ELSE IF ~has_kvs /\ ~has_sled THEN Ok(None)
        ELSE Err("Both kvs and sled data detected")

\* main, lines 76-86: the previous engine is detected and compared with the argument
MainDetect ==
    /\ boot.pc = "start"
    /\ LET d == detect_previous_engine(Listing(files, boot.extras))
       IN  boot' = IF ~d.ok
                   THEN [boot EXCEPT !.pc = "refused", !.err = d.err]
                   ELSE IF d.val # None /\ Mismatched(d.val[1], boot.arg)
                   THEN [boot EXCEPT !.pc = "refused", !.err = "Wrong engine!"]
                   ELSE [boot EXCEPT !.pc = "match"]
    /\ UNCHANGED <<engine, caller, compacted, poolvars, netvars, probe>>

\* main, lines 89-90: KvStore::open("./")
MainOpenKvs ==
    /\ boot.pc = "match"
    /\ boot.arg = "kvs"
    /\ IF open(files).ok
       THEN /\ Install(open(files))
            /\ boot' = [boot EXCEPT !.pc = "opened", !.engine = "kvs"]
       ELSE /\ files' = open(files).dir
            /\ boot' = [boot EXCEPT !.pc = "refused", !.err = "open"]
            /\ UNCHANGED <<file_count, cur_path, idx, uncompacted>>
    /\ UNCHANGED <<caller, compacted, poolvars, netvars, probe>>

\* main, lines 93-94: SledEngine::open("./")
MainOpenSled ==
    /\ boot.pc = "match"
    /\ boot.arg = "sled"
    /\ boot' = [boot EXCEPT !.pc = "opened", !.engine = "sled",
                            !.extras = @ \cup SledFiles]
    /\ UNCHANGED <<engine, caller, compacted, poolvars, netvars, probe>>

\* main, line 97: any other engine name
MainUnknown ==
    /\ boot.pc = "match"
    /\ boot.arg \notin {"kvs", "sled"}
    /\ boot' = [boot EXCEPT !.pc = "refused", !.err = "Unknown engine"]
    /\ UNCHANGED <<engine, caller, compacted, poolvars, netvars, probe>>

\* KvsServer::new and run: the pool is made, the listener bound, the loop entered
MainBind ==
    /\ boot.pc = "opened"
    /\ boot' = [boot EXCEPT !.pc = "running", !.bound = TRUE]
    /\ UNCHANGED <<engine, caller, compacted, poolvars, netvars, probe>>

\* the process starts: a data directory, an engine argument, nothing opened yet
InitStartup ==
    /\ files \in StartDirs
    /\ file_count = 0
    /\ cur_path = 0
    /\ idx = EmptyMap
    /\ uncompacted = 0
    /\ \E extras \in SUBSET ExtraNames, arg \in EngineArgs :
          boot = [pc |-> "start", arg |-> arg, extras |-> extras, err |-> "",
                  engine |-> "none", bound |-> FALSE, dir0 |-> files, extras0 |-> extras]
    /\ mutex = NoThread
    /\ threads = AllThreads
    /\ owns = [t \in AllThreads |-> [keys |-> Keys, values |-> Values]]
    /\ pc = [t \in AllThreads |-> "idle"]
    /\ req = [t \in AllThreads |-> NoReq]
    /\ res = [t \in AllThreads |-> NoRes]
    /\ loc = [t \in AllThreads |-> NoLoc]
    /\ kv = [k \in Keys |-> None]
    /\ allowed = [t \in AllThreads |-> {}]
    /\ nops = 0
    /\ compacted = NoCompaction
    /\ queue = <<>>
    /\ rx = NoThread
    /\ wpc = [t \in AllThreads |-> "lock"]
    /\ wjob = [t \in AllThreads |-> NoJob]
    /\ pool = [pc |-> "alive", sent |-> 0, joined |-> 0]
    /\ hist = [spawned |-> <<>>, taken |-> <<>>, ran |-> <<>>]
    /\ shutdown = FALSE
    /\ acc = "check"
    /\ conns = [c \in 1..MaxConns |-> NoConn]
    /\ hpc = [t \in AllThreads |-> "none"]
    /\ probe = NoProbe

NextStartup ==
    \/ MainDetect
    \/ MainOpenKvs
    \/ MainOpenSled
    \/ MainUnknown
    \/ MainBind

SpecStartup == InitStartup /\ [][NextStartup]_vars

\* the data directory held segments of the kvs engine when main started
HeldKvsData == DOMAIN boot.dir0 # {}

\* the data directory held entries of the sled layout when main started
HeldSledData == \E n \in boot.extras0 : n = NameDb \/ StartsWith(n, NameSled)

\* the data directory held nothing but segments and entries of the sled layout
HeldEngineDataOnly == \A n \in boot.extras0 : n = NameDb \/ StartsWith(n, NameSled)

(***************************************************************************)
(* C18: main refuses to start, with no engine opened, no listener bound    *)
(* and the directory as it was, whenever the data directory holds data of  *)
(* another engine than the requested one or data of both; it is not        *)
(* refused, opens the requested engine and binds when the directory is     *)
(* empty or holds only data of the requested engine.                       *)
(***************************************************************************)
C18_EngineMismatchRefused ==
    LET mismatch == \/ HeldKvsData /\ boot.arg # "kvs"
                    \/ HeldSledData /\ boot.arg # "sled"
                    \/ HeldKvsData /\ HeldSledData
        clean    == /\ boot.arg \in {"kvs", "sled"}
                    /\ HeldEngineDataOnly
                    /\ ~mismatch
    IN  /\ boot.pc = "refused" =>
              /\ boot.engine = "none"
              /\ ~boot.bound
              /\ files = boot.dir0
              /\ boot.extras = boot.extras0
              /\ boot.err # ""
        /\ mismatch => boot.pc \in {"start", "refused"}
        /\ mismatch /\ HeldKvsData /\ HeldSledData /\ boot.pc = "refused" =>
              boot.err = "Both kvs and sled data detected"
        /\ clean => boot.pc # "refused"
        /\ boot.pc \in {"opened", "running"} => boot.engine = boot.arg
        /\ boot.pc = "running" <=> boot.bound

\* a directory holding 1.log and db, as the only entries, was refused as holding both
C18_Witness ==
    /\ boot.pc = "refused"
    /\ DOMAIN boot.dir0 = {1}
    /\ boot.extras0 = {NameDb}
    /\ boot.arg = "kvs"
    /\ boot.err = "Both kvs and sled data detected"

(***************************************************************************)
(* Damage on disk: the bytes of a segment are replaced behind the engine's *)
(* back, so that a FileIndex of the index may lead to a line that is no    *)
(* Set record.                                                             *)
(***************************************************************************)
\* what a damaged segment may hold: a Remove line, or a line that is no record
DamagedFiles == {serialize(RecRemove(k)) : k \in Keys} \cup {<<"?", LF>>}

\* the file n.log, which the index refers to, is overwritten with other bytes; one
\* damaged file at a time
Damage(n, bytes) ==
    /\ n \in DOMAIN files
    /\ \E k \in DOMAIN idx : idx[k].path = n
    /\ \A m \in DOMAIN files, d \in DamagedFiles : ~StartsWith(files[m], d)
    /\ files' = [files EXCEPT ![n] = bytes]
    /\ UNCHANGED <<file_count, cur_path, idx, uncompacted, caller>>

NextDamage ==
    \/ \E t \in threads, k \in Keys, v \in Values : CallSet(t, k, v) /\ UNCHANGED rest
    \/ \E t \in threads, k \in Keys : CallGet(t, k) /\ UNCHANGED rest
    \/ \E t \in threads, k \in Keys : CallRemove(t, k) /\ UNCHANGED rest
    \/ \E t \in threads : Lock(t) /\ UNCHANGED rest
    \/ \E t \in threads : KvStoreSet(t) /\ UNCHANGED rest
    \/ \E t \in threads : KvStoreGet(t) /\ UNCHANGED rest
    \/ \E t \in threads : KvStoreRemove(t) /\ UNCHANGED rest
    \/ \E t \in threads : CompactBegin(t) /\ UNCHANGED rest
    \/ \E t \in threads : CompactCopy(t) /\ UNCHANGED rest
    \/ \E t \in threads : CompactDelete(t) /\ UNCHANGED rest
    \/ \E t \in threads : Return(t) /\ UNCHANGED rest
    \/ \E n \in 1..MaxFileCount, bytes \in DamagedFiles : Damage(n, bytes) /\ UNCHANGED rest

SpecDamage == Init /\ [][NextDamage]_vars

(***************************************************************************)
(* C21: a get of a key that is in the index and whose FileIndex leads to   *)
(* a line that is not a Set record (a Remove record, or no record) returns *)
(* an error, never Ok with a value or Ok(None).                            *)
(***************************************************************************)
C21_GetOfNonSetRecordFails ==
    [][\A t \in threads :
          (/\ pc[t] = "exec"
           /\ req[t].op = "get"
           /\ pc'[t] = "ret"
           /\ req[t].key \in DOMAIN idx
           /\ LET r == read(files, idx[req[t].key])
              IN  ~(r.ok /\ r.val.type = "Set"))
          => ~res'[t].ok]_vars

\* the bytes old are the beginning of the bytes new
IsPrefix(old, new) ==
    /\ Len(old) <= Len(new)
    /\ SubSeq(new, 1, Len(old)) = old

(***************************************************************************)
(* C22: segments are append-only and only the active one is written. In    *)
(* every state the active segment is the highest-numbered file of the      *)
(* directory; its number never decreases; in every step a file that stays  *)
(* keeps its bytes as the beginning of its new bytes, and only the active  *)
(* segment of the step's end grows or is created; a file disappears only   *)
(* in the delete loop of a compaction, and never the active one.           *)
(***************************************************************************)
C22_SegmentsAppendOnly ==
    /\ [](/\ cur_path \in DOMAIN files
          /\ cur_path = MaxFileNumber(files))
    /\ [][/\ cur_path' >= cur_path
          /\ \A n \in DOMAIN files \cap DOMAIN files' :
                /\ IsPrefix(files[n], files'[n])
                /\ files'[n] # files[n] => n = cur_path'
          /\ \A n \in DOMAIN files' \ DOMAIN files :
                /\ n = cur_path'
                /\ \A m \in DOMAIN files : m < n
          /\ \A n \in DOMAIN files \ DOMAIN files' :
                /\ n # cur_path
                /\ n # cur_path'
                /\ \E t \in threads : pc[t] = "delete"]_vars

\* a record was appended to an active segment that already held a Remove record,
\* next to a sealed segment
C22_Witness ==
    /\ \E n \in DOMAIN files : n < cur_path /\ files[n] # <<>>
    /\ \E k \in Keys, r \in {RecRemove(j) : j \in Keys} \cup
                            {RecSet(j, v) : j \in Keys, v \in Values} :
          /\ Len(files[cur_path]) > Len(serialize(r))
          /\ IsPrefix(serialize(RecRemove(k)), files[cur_path])

(***************************************************************************)
(* The record codec on records of its own (log_helper.rs): a record is     *)
(* encoded, the line decoded, and the record's set is followed by a get on *)
(* a fresh store.                                                          *)
(***************************************************************************)
\* Bound of the model: the length of the keys and values given to the codec.
MaxStrLen == 2

\* the characters of those keys and values: neither a space nor a newline
CodecChars == {"a", "b", "\t"}

\* the non-empty strings over CodecChars of length up to n
RECURSIVE StringsUpTo(_)
StringsUpTo(n) ==
    IF n = 0 THEN {}
    ELSE StringsUpTo(n - 1)
           \cup {<<c>> : c \in CodecChars}
           \cup {Append(w, c) : w \in {u \in StringsUpTo(n - 1) : Len(u) = n - 1},
                                c \in CodecChars}

CodecStrings == StringsUpTo(MaxStrLen)

CodecRecords ==
    {RecSet(k, v) : k \in CodecStrings, v \in CodecStrings}
        \cup {RecRemove(k) : k \in CodecStrings}

\* LogHelper::serialize applied to the record
CodecEncode ==
    /\ probe.pc = "record"
    /\ probe' = [probe EXCEPT !.pc = "line", !.line = serialize(probe.rec)]
    /\ UNCHANGED <<engine, caller, compacted, poolvars, netvars, boot>>

\* LogHelper::deserialize applied to the line
CodecDecode ==
    /\ probe.pc = "line"
    /\ probe' = [probe EXCEPT !.pc = "decoded", !.out = deserialize(probe.line)]
    /\ UNCHANGED <<engine, caller, compacted, poolvars, netvars, boot>>

\* KvStore::set of the record's key and value on a fresh store, then KvStore::get
CodecSetGet ==
    /\ probe.pc = "decoded"
    /\ probe.rec.type = "Set"
    /\ LET s == set(Reopened(EmptyDir), probe.rec.key, probe.rec.value).store
       IN  probe' = [probe EXCEPT !.pc = "stored", !.got = get(s, probe.rec.key),
                                  !.reopens = open(s.dir).ok]
    /\ UNCHANGED <<engine, caller, compacted, poolvars, netvars, boot>>

InitCodec ==
    /\ InitButProbe({"t1"}, [t \in {"t1"} |-> [keys |-> Keys, values |-> Values]])
    /\ \E r \in CodecRecords :
          probe = [pc |-> "record", rec |-> r, line |-> <<>>, out |-> NoRes, got |-> NoRes,
                   reopens |-> TRUE]

NextCodec ==
    \/ CodecEncode
    \/ CodecDecode
    \/ CodecSetGet

SpecCodec == InitCodec /\ [][NextCodec]_vars

(***************************************************************************)
(* C23: for every record whose key and value are non-empty and hold no     *)
(* space and no newline, decoding the encoded line gives the record back,  *)
(* and a set of its key and value followed by a get returns the value.     *)
(***************************************************************************)
C23_CodecRoundTrip ==
    /\ probe.pc \in {"decoded", "stored"} => probe.out = Ok(probe.rec)
    /\ probe.pc = "stored" => probe.got = Ok(Some(probe.rec.value))

(***************************************************************************)
(* Open after a crash in the middle of a write: the last segment ends with *)
(* the beginning of a record.                                              *)
(***************************************************************************)
\* Bound of the model: the complete records in the last segment before the torn one.
MaxTornRecords == 2

\* the records the log is made of
TornRecords == {RecSet(<<"a">>, <<"x">>), RecSet(<<"b">>, <<"y">>), RecRemove(<<"a">>)}

\* the logs of up to n complete records
RECURSIVE LogsUpTo(_)
LogsUpTo(n) ==
    IF n = 0 THEN {<<>>}
    ELSE LogsUpTo(n - 1)
           \cup {l \o serialize(r) : l \in LogsUpTo(n - 1), r \in TornRecords}

\* the beginnings of a record's line that a crash may leave: at least one byte, not
\* the whole line
TornTails ==
    UNION {{SubSeq(serialize(r), 1, n) : n \in 1..(Len(serialize(r)) - 1)} :
              r \in TornRecords}

\* a directory of segs segments: the sealed ones hold one record, the last one bytes
DirEndingWith(segs, bytes) ==
    [n \in 1..segs |-> IF n = segs THEN bytes ELSE serialize(RecSet(<<"b">>, <<"x">>))]

\* KvStore::open on the directory with the torn tail
OpenTorn ==
    /\ probe.pc = "crashed"
    /\ probe' = [probe EXCEPT !.pc = "opened", !.out = open(probe.dir)]
    /\ UNCHANGED <<engine, caller, compacted, poolvars, netvars, boot>>

InitTorn ==
    /\ InitButProbe({"t1"}, [t \in {"t1"} |-> [keys |-> Keys, values |-> Values]])
    /\ \E segs \in 1..2, l \in LogsUpTo(MaxTornRecords), tail \in TornTails :
          probe = [pc |-> "crashed", tail |-> tail,
                   whole |-> DirEndingWith(segs, l),
                   dir |-> DirEndingWith(segs, l \o tail),
                   out |-> open(EmptyDir)]

NextTorn == OpenTorn

SpecTorn == InitTorn /\ [][NextTorn]_vars

(***************************************************************************)
(* C24: opening a directory whose last segment ends with a partly written  *)
(* record, a final line that does not decode, succeeds, and the index is   *)
(* the one the complete records before that line give.                     *)
(***************************************************************************)
C24_TornTailTolerated ==
    (probe.pc = "opened" /\ ~deserialize(probe.tail).ok) =>
        /\ probe.out.ok
        /\ probe.out.idx = open(probe.whole).idx
        /\ probe.out.file_count = open(probe.whole).file_count

(***************************************************************************)
(* Segment discovery by names (KvStore::open, lines 57-70). The directory  *)
(* is its files N.log, as before, plus other entries: files with other     *)
(* names, and files inside subdirectories.                                 *)
(***************************************************************************)
DigitChars == <<"0", "1", "2", "3", "4", "5", "6", "7", "8", "9">>

IsDigit(c) == \E i \in 1..10 : DigitChars[i] = c

DigitValue(c) == (CHOOSE i \in 1..10 : DigitChars[i] = c) - 1

\* the value of a string of decimal digits, leading zeros allowed
RECURSIVE DecimalValue(_)
DecimalValue(s) ==
    IF s = <<>> THEN 0
    ELSE 10 * DecimalValue(SubSeq(s, 1, Len(s) - 1)) + DigitValue(s[Len(s)])

\* i32::MAX
I32Max == 2147483647

\* str::parse::<i32>: an optional sign, then one or more decimal digits, the value
\* within the range of i32
ParseI32(s) ==
    LET signed == s # <<>> /\ Head(s) \in {"+", "-"}
        digits == IF signed THEN Tail(s) ELSE s
        value  == IF signed /\ Head(s) = "-" THEN 0 - DecimalValue(digits)
                  ELSE DecimalValue(digits)
    IN  IF digits = <<>> \/ \E i \in 1..Len(digits) : ~IsDigit(digits[i])
        THEN Err("ParseIntError")
        ELSE IF value > I32Max \/ value < 0 - I32Max - 1
        THEN Err("ParseIntError")
        ELSE Ok(value)

\* str::strip_suffix(".log")
StripDotLog(name) ==
    IF EndsWith(name, DotLog) THEN Some(SubSeq(name, 1, Len(name) - Len(DotLog)))
    ELSE None

\* the number the discovery loop reads from a file's name, 0 when it reads none
NumberOf(name) ==
    IF StripDotLog(name) = None THEN 0
    ELSE LET p == ParseI32(StripDotLog(name)[1])
         IN  IF p.ok THEN p.val ELSE 0

\* the maximum of a set of integers and 0
MaxOrZero(S) == IF \A x \in S : x <= 0 THEN 0 ELSE CHOOSE x \in S : \A y \in S : y <= x

\* the entries besides the files N.log of the data directory: a file name, and whether
\* the file lies in a subdirectory
OtherEntries ==
    {[name |-> <<"0", "0", "7">> \o DotLog, nested |-> FALSE],
     [name |-> <<"+", "5">> \o DotLog, nested |-> FALSE],
     [name |-> <<"-", "2">> \o DotLog, nested |-> FALSE],
     [name |-> <<"n", "o", "t", "e", "s">> \o DotLog, nested |-> FALSE],
     [name |-> <<"3", ".", "t", "x", "t">>, nested |-> FALSE],
     [name |-> <<"3">> \o DotLog, nested |-> TRUE]}

\* KvStore::open on a directory with other entries: WalkDir visits every file below
\* the directory and the loop looks at its file name only; the active segment and
\* the replay use the files N.log of the directory itself
open_entries(dir, others) ==
    LET found == MaxOrZero({MaxFileNumber(dir)} \cup {NumberOf(e.name) : e \in others})
        fc    == IF found < 1 THEN 1 ELSE found
        dir1  == open_file(dir, fc)
        rp    == ReplayFiles(dir1, 1, fc, [idx |-> EmptyMap, uncompacted |-> 0])
    IN  IF ~rp.ok
        THEN [ok |-> FALSE, dir |-> dir1, file_count |-> fc, cur_path |-> fc,
              idx |-> EmptyMap, uncompacted |-> 0]
        ELSE [ok |-> TRUE, dir |-> dir1, file_count |-> fc, cur_path |-> fc,
              idx |-> rp.val.idx, uncompacted |-> rp.val.uncompacted]

\* KvStore::open on the directory and its other entries
OpenEntries ==
    /\ probe.pc = "listed"
    /\ probe' = [probe EXCEPT !.pc = "opened", !.out = open_entries(probe.dir, probe.others)]
    /\ UNCHANGED <<engine, caller, compacted, poolvars, netvars, boot>>

InitEntries ==
    /\ InitButProbe({"t1"}, [t \in {"t1"} |-> [keys |-> Keys, values |-> Values]])
    /\ \E d \in StartDirs, others \in SUBSET OtherEntries :
          probe = [pc |-> "listed", dir |-> d, others |-> others, out |-> open(EmptyDir)]

NextEntries == OpenEntries

SpecEntries == InitEntries /\ [][NextEntries]_vars

(***************************************************************************)
(* C25: entries that are not files named N.log (N >= 1 in decimal, no      *)
(* sign, no leading zero) directly in the data directory have no effect on *)
(* the store open gives: the same index, the same active segment number,   *)
(* and no file created that open would not create without them.            *)
(***************************************************************************)
C25_OtherEntriesIgnored ==
    probe.pc = "opened" =>
        /\ probe.out.ok = open(probe.dir).ok
        /\ probe.out.idx = open(probe.dir).idx
        /\ probe.out.cur_path = open(probe.dir).cur_path
        /\ probe.out.file_count = open(probe.dir).file_count
        /\ probe.out.dir = open(probe.dir).dir

====
